---- MODULE Spec2Model ----
(***************************************************************************)
(* Gupshup chat: the relational store (tables, uniqueness constraints,     *)
(* row-level security policies, stored procedures) and the client handlers *)
(* that drive it, as one state machine.                                    *)
(*                                                                         *)
(* Tables are sets (or id-indexed functions) of rows.  A stored procedure  *)
(* is one action: PL/pgSQL runs it in one transaction, so an exception     *)
(* leaves the tables unchanged.  Where concurrent calls matter, a          *)
(* procedure's membership check and its INSERT are two actions: under READ *)
(* COMMITTED another transaction can commit between the two statements.    *)
(* A client handler is split at the awaits where another client can        *)
(* interleave.  The row-level security policies in force are those of the  *)
(* last migration that rewrites them.                                      *)
(***************************************************************************)
EXTENDS Integers, FiniteSets, Sequences, TLC

VARIABLES
    now,            \* the store's clock, in minutes
    connections,    \* table connections
    notifications,  \* table notifications, in insertion order
    messages,       \* table messages (direct messages), by id
    groups,         \* table groups, by id
    group_members,  \* table group_members
    group_messages, \* table group_messages, by id
    uiProfile,      \* UserProfileModal state of each signed-in user
    uiAddContact,   \* AddContactModal.handleSubmit between its check and its insert
    message_mentions, \* table message_mentions, in insertion order
    pending_joins,  \* calls that have checked membership and not yet inserted
    profiles,       \* table profiles: presence columns of each user's row
    ret             \* result of the last call

vars == <<now, connections, notifications, messages, groups, group_members,
          group_messages, uiProfile, uiAddContact, message_mentions,
          pending_joins, profiles, ret>>

(***************************************************************************)
(* Bounds                                                                  *)
(***************************************************************************)
MaxTime == 2
MaxNotifs == 2
MaxMsgs == 2
MaxGroups == 2
MaxGroupMsgs == 2
MaxMentions == 2

(***************************************************************************)
(* Identities and values                                                   *)
(***************************************************************************)
NULL == "null"
Users == {"u1", "u2", "u3"}
SYSTEM == "system"

\* the presence columns of a row of profiles; a deleted row keeps its place
ProfileRow(status, last_active) ==
    [exists |-> TRUE, status |-> status, last_active |-> last_active]
DeletedProfile == [exists |-> FALSE, status |-> NULL, last_active |-> NULL]
NoProfile == "u9"

\* names and emails are strings of characters; LOWER maps each character
LowerChar(c) ==
    CASE c = "A" -> "a"
      [] c = "B" -> "b"
      [] OTHER -> c

Lower(name) == [i \in DOMAIN name |-> LowerChar(name[i])]

\* profiles.email of each user, as a string of characters
EmailOf(u) ==
    CASE u = "u1" -> <<"a">>
      [] u = "u2" -> <<"b">>
      [] u = "u3" -> <<"c">>

(***************************************************************************)
(* Connections                                                             *)
(***************************************************************************)
ConnRow(req, rcv, st) == [requester_id |-> req, receiver_id |-> rcv, status |-> st]

\* the client's null connection, and a modal that is not open
NoConn == ConnRow(NULL, NULL, NULL)
NoModal == [userId |-> NULL, connection |-> NoConn]

\* UNIQUE(requester_id, receiver_id): the ordered pair is the key
connections_unique_ok(req, rcv) ==
    ~ \E c \in connections : c.requester_id = req /\ c.receiver_id = rcv

\* INSERT policy on connections
connections_insert_policy(uid, row) == row.requester_id = uid

\* rows matched by the either-direction filter both modals use
ConnectionsBetween(a, b) ==
    {c \in connections :
        \/ (c.requester_id = a /\ c.receiver_id = b)
        \/ (c.requester_id = b /\ c.receiver_id = a)}

\* .maybeSingle(): the row, null for no row, an error for several rows
maybeSingle(rows) ==
    IF rows = {} THEN [error |-> FALSE, data |-> NoConn]
    ELSE IF Cardinality(rows) = 1
         THEN [error |-> FALSE, data |-> CHOOSE r \in rows : TRUE]
         ELSE [error |-> TRUE, data |-> NoConn]

ConnectionRequestNotification(req, rcv) ==
    [user_id |-> rcv, type |-> "connection_request", is_read |-> FALSE,
     from |-> req, group_id |-> NULL, flag |-> NULL, connection_id |-> NULL]

\* UserProfileModal: opening the modal on userId runs fetchConnection
fetchConnection(u, userId) ==
    /\ LET q == maybeSingle(ConnectionsBetween(u, userId))
       IN  uiProfile' = [uiProfile EXCEPT ![u] =
                            [userId |-> userId, connection |-> q.data]]
    /\ ret' = "ok"
    /\ UNCHANGED <<now, connections, notifications, messages, groups,
                   group_members, group_messages, uiAddContact, message_mentions,
                   pending_joins, profiles>>

\* UserProfileModal.handleSendConnectionRequest: the button is rendered for
\* another user's profile while the cached connection is null
handleSendConnectionRequest(u) ==
    /\ uiProfile[u] # NoModal
    /\ uiProfile[u].userId # u
    /\ uiProfile[u].connection = NoConn
    /\ Len(notifications) < MaxNotifs
    /\ LET t == uiProfile[u].userId
           row == ConnRow(u, t, "pending")
       IN  IF connections_insert_policy(u, row) /\ connections_unique_ok(u, t)
           THEN /\ connections' = connections \cup {row}
                /\ notifications' = Append(notifications,
                                           ConnectionRequestNotification(u, t))
                /\ LET rows == {c \in connections \cup {row} :
                                   \/ (c.requester_id = u /\ c.receiver_id = t)
                                   \/ (c.requester_id = t /\ c.receiver_id = u)}
                       q == maybeSingle(rows)
                   IN  uiProfile' = [uiProfile EXCEPT ![u].connection = q.data]
                /\ ret' = "ok"
           ELSE /\ ret' = "error"
                /\ UNCHANGED <<connections, notifications, uiProfile>>
    /\ UNCHANGED <<now, messages, groups, group_members, group_messages,
                   uiAddContact, message_mentions, pending_joins, profiles>>

\* AddContactModal.handleSubmit up to the existing-connection check: email
\* is the text typed.  It is compared with the user's own email as typed,
\* and looked up in profiles in lower case
handleSubmit_check(u, email) ==
    /\ uiAddContact[u] = NULL
    /\ LET existingUser == {p \in Users : EmailOf(p) = Lower(email)}
       IN  IF email = EmailOf(u) \/ existingUser = {}
           THEN /\ ret' = "error"
                /\ UNCHANGED uiAddContact
           ELSE LET userProfile == CHOOSE p \in existingUser : TRUE
                    q == maybeSingle(ConnectionsBetween(u, userProfile))
                IN  IF q.error \/ q.data # NoConn
                    THEN /\ ret' = "error"
                         /\ UNCHANGED uiAddContact
                    ELSE /\ ret' = "ok"
                         /\ uiAddContact' = [uiAddContact EXCEPT ![u] = userProfile]
    /\ UNCHANGED <<now, connections, notifications, messages, groups,
                   group_members, group_messages, uiProfile, message_mentions,
                   pending_joins, profiles>>

\* AddContactModal.handleSubmit from the insert on
handleSubmit_insert(u) ==
    /\ uiAddContact[u] # NULL
    /\ Len(notifications) < MaxNotifs
    /\ LET t == uiAddContact[u]
           row == ConnRow(u, t, "pending")
       IN  IF connections_insert_policy(u, row) /\ connections_unique_ok(u, t)
           THEN /\ connections' = connections \cup {row}
                /\ notifications' = Append(notifications,
                                           ConnectionRequestNotification(u, t))
                /\ ret' = "ok"
           ELSE /\ ret' = "error"
                /\ UNCHANGED <<connections, notifications>>
    /\ uiAddContact' = [uiAddContact EXCEPT ![u] = NULL]
    /\ UNCHANGED <<now, messages, groups, group_members, group_messages,
                   uiProfile, message_mentions, pending_joins, profiles>>

\* SELECT policy "Users can view their own connections"
connections_select_policy(uid, row) ==
    row.requester_id = uid \/ row.receiver_id = uid

\* UPDATE policy "Users can update connections they're part of": USING and
\* WITH CHECK are the same expression
connections_update_policy(uid, row) ==
    row.requester_id = uid \/ row.receiver_id = uid

\* connections.id: UNIQUE(requester_id, receiver_id) makes the pair name
\* the row
ConnId(c) == c.requester_id \o "-" \o c.receiver_id

\* the trigger function with its UPDATE left out
update_connection_notification_nothing(OLDROW, NEWROW, notifs) == notifs

\* trigger function update_connection_notification, AFTER UPDATE ON
\* connections FOR EACH ROW: the notifications table after it has run
update_connection_notification(OLDROW, NEWROW, notifs) ==
    IF OLDROW.status = "pending" /\ NEWROW.status \in {"accepted", "rejected"}
    THEN [i \in DOMAIN notifs |->
            LET n == notifs[i]
            IN  IF /\ n.from = OLDROW.requester_id
                   /\ n.user_id = OLDROW.receiver_id
                   /\ n.type = "connection_request"
                   /\ n.is_read = FALSE
                THEN [n EXCEPT !.connection_id = ConnId(NEWROW),
                               !.is_read = IF NEWROW.status = "accepted" THEN TRUE ELSE @]
                ELSE n]
    ELSE notifs

\* NotificationPanel.markAsRead: the notifications table after it
markAsRead(notifs, i) == [notifs EXCEPT ![i].is_read = TRUE]

\* UPDATE connections SET status = st WHERE id = ConnId(c), as user uid,
\* under row-level security, with its trigger: a row the policies do not
\* admit is not updated and no error is reported
update_connections(uid, c, st) ==
    /\ c \in connections
    /\ st # c.status
    /\ LET NEWROW == [c EXCEPT !.status = st]
       IN  IF /\ connections_select_policy(uid, c)
              /\ connections_update_policy(uid, c)
              /\ connections_update_policy(uid, NEWROW)
           THEN /\ connections' = (connections \ {c}) \cup {NEWROW}
                /\ notifications' = update_connection_notification(c, NEWROW, notifications)
           ELSE UNCHANGED <<connections, notifications>>
    /\ ret' = "ok"
    /\ UNCHANGED <<now, messages, groups, group_members, group_messages,
                   uiProfile, uiAddContact, message_mentions, pending_joins,
                   profiles>>

\* NotificationPanel.handleAcceptConnection and handleRejectConnection, st
\* being the status each writes: the buttons are rendered for an unread
\* connection_request among the user's notifications; .single() fails
\* unless exactly one row is found; the result is the message shown
NotificationPanel_respond(u, i, st) ==
    /\ i \in DOMAIN notifications
    /\ notifications[i].user_id = u
    /\ notifications[i].type = "connection_request"
    /\ notifications[i].is_read = FALSE
    /\ LET found == {c \in connections :
                        /\ connections_select_policy(u, c)
                        /\ c.requester_id = notifications[i].from
                        /\ c.receiver_id = u}
       IN  IF Cardinality(found) # 1
           THEN /\ ret' = "error"
                /\ UNCHANGED <<connections, notifications>>
           ELSE LET c == CHOOSE r \in found : TRUE
                    NEWROW == [c EXCEPT !.status = st]
                IN  /\ connections' = (connections \ {c}) \cup {NEWROW}
                    /\ notifications' =
                          markAsRead(update_connection_notification(c, NEWROW, notifications), i)
                    /\ ret' = IF st = "accepted" THEN "request_accepted"
                              ELSE "request_rejected"
    /\ UNCHANGED <<now, messages, groups, group_members, group_messages,
                   uiProfile, uiAddContact, message_mentions, pending_joins,
                   profiles>>

NotificationPanel_handleAcceptConnection(u, i) ==
    NotificationPanel_respond(u, i, "accepted")

NotificationPanel_handleRejectConnection(u, i) ==
    NotificationPanel_respond(u, i, "rejected")

\* UserProfileModal.handleAcceptConnection: the button is rendered while
\* the cached connection is pending with the user as receiver; the update
\* goes by the cached row's id, whatever the row's status is by now, and
\* fetchConnection follows
UserProfileModal_handleAcceptConnection(u) ==
    /\ uiProfile[u] # NoModal
    /\ uiProfile[u].userId # u
    /\ uiProfile[u].connection.status = "pending"
    /\ uiProfile[u].connection.receiver_id = u
    /\ LET rows == {c \in connections :
                       /\ ConnId(c) = ConnId(uiProfile[u].connection)
                       /\ connections_select_policy(u, c)
                       /\ connections_update_policy(u, c)}
           after == {IF c \in rows THEN [c EXCEPT !.status = "accepted"] ELSE c :
                        c \in connections}
           between == {c \in after :
                         \/ (c.requester_id = u /\ c.receiver_id = uiProfile[u].userId)
                         \/ (c.requester_id = uiProfile[u].userId /\ c.receiver_id = u)}
       IN  /\ connections' = after
           /\ notifications' =
                 IF rows = {} THEN notifications
                 ELSE LET c == CHOOSE r \in rows : TRUE
                      IN  update_connection_notification(
                              c, [c EXCEPT !.status = "accepted"], notifications)
           /\ uiProfile' = [uiProfile EXCEPT ![u].connection = maybeSingle(between).data]
    /\ ret' = "ok"
    /\ UNCHANGED <<now, messages, groups, group_members, group_messages,
                   uiAddContact, message_mentions, pending_joins, profiles>>

(***************************************************************************)
(* Direct messages                                                         *)
(***************************************************************************)
\* a timestamp column that is NULL
NoTime == -1

\* interval '2 minutes' of delete_message_for_user
DeleteWindow == 2

MsgIds == 1..MaxMsgs

\* a row as inserted.  sent_by and sent_at are not columns: they record who
\* inserted the row and when, and no operation changes them
MsgRow(s, r, t) ==
    [sender_id |-> s, receiver_id |-> r, timestamp |-> t,
     deleted_for_sender |-> FALSE, deleted_for_receiver |-> FALSE,
     deleted_for_everyone |-> FALSE,
     delivered_at |-> NoTime, read_at |-> NoTime, read |-> FALSE,
     sent_by |-> s, sent_at |-> t]

\* the SELECT policy without its deleted_for_everyone conjunct
messages_select_policy_own_flag_only(uid, m) ==
    /\ (m.sender_id = uid \/ m.receiver_id = uid)
    /\ IF m.sender_id = uid THEN m.deleted_for_sender = FALSE
       ELSE IF m.receiver_id = uid THEN m.deleted_for_receiver = FALSE
       ELSE FALSE

\* SELECT policy "Users can view messages they sent or received"
messages_select_policy(uid, m) ==
    /\ (m.sender_id = uid \/ m.receiver_id = uid)
    /\ m.deleted_for_everyone = FALSE
    /\ IF m.sender_id = uid THEN m.deleted_for_sender = FALSE
       ELSE IF m.receiver_id = uid THEN m.deleted_for_receiver = FALSE
       ELSE FALSE

\* INSERT policy "Users can send messages to any user"
messages_insert_policy(uid, m) == m.sender_id = uid

\* UPDATE policies "Users can delete their own messages" and "Users can
\* update messages they received": permissive policies are OR-ed
messages_update_policy(uid, m) ==
    \/ (m.sender_id = uid \/ m.receiver_id = uid)
    \/ m.receiver_id = uid

\* ChatWindow.handleSendMessage: insert (sender_id: user.id, receiver_id:
\* contactId); timestamp defaults to now()
handleSendMessage(u, contactId) ==
    /\ Len(messages) < MaxMsgs
    /\ LET row == MsgRow(u, contactId, now)
       IN  IF messages_insert_policy(u, row)
           THEN /\ messages' = Append(messages, row)
                /\ ret' = "ok"
           ELSE /\ ret' = "error"
                /\ UNCHANGED messages
    /\ UNCHANGED <<now, connections, notifications, groups, group_members,
                   group_messages, uiProfile, uiAddContact, message_mentions,
                   pending_joins, profiles>>

\* the message selected by delete_message_for_user is found
message_found(message_id, user_id) ==
    /\ message_id \in DOMAIN messages
    /\ (messages[message_id].sender_id = user_id
        \/ messages[message_id].receiver_id = user_id)

can_delete_for_all(message_record, user_id) ==
    /\ message_record.sender_id = user_id
    /\ message_record.timestamp > now - DeleteWindow

\* delete_message_for_user without can_delete_for_all: any party's
\* delete-for-everyone request is honoured
delete_message_for_user_any_party(message_id, user_id, delete_for_everyone) ==
    /\ IF ~ message_found(message_id, user_id)
       THEN /\ ret' = "false"
            /\ UNCHANGED messages
       ELSE /\ ret' = "true"
            /\ LET message_record == messages[message_id]
               IN  IF delete_for_everyone
                   THEN messages' = [messages EXCEPT
                            ![message_id].deleted_for_everyone = TRUE]
                   ELSE IF message_record.sender_id = user_id
                   THEN messages' = [messages EXCEPT
                            ![message_id].deleted_for_sender = TRUE]
                   ELSE messages' = [messages EXCEPT
                            ![message_id].deleted_for_receiver = TRUE]
    /\ UNCHANGED <<now, connections, notifications, groups, group_members,
                   group_messages, uiProfile, uiAddContact, message_mentions,
                   pending_joins, profiles>>

\* stored procedure delete_message_for_user (SECURITY DEFINER)
delete_message_for_user(message_id, user_id, delete_for_everyone) ==
    /\ IF ~ message_found(message_id, user_id)
       THEN /\ ret' = "false"
            /\ UNCHANGED messages
       ELSE /\ ret' = "true"
            /\ LET message_record == messages[message_id]
               IN  IF delete_for_everyone
                      /\ can_delete_for_all(message_record, user_id)
                   THEN messages' = [messages EXCEPT
                            ![message_id].deleted_for_everyone = TRUE]
                   ELSE IF message_record.sender_id = user_id
                   THEN messages' = [messages EXCEPT
                            ![message_id].deleted_for_sender = TRUE]
                   ELSE messages' = [messages EXCEPT
                            ![message_id].deleted_for_receiver = TRUE]
    /\ UNCHANGED <<now, connections, notifications, groups, group_members,
                   group_messages, uiProfile, uiAddContact, message_mentions,
                   pending_joins, profiles>>

\* clear_conversation_for_user setting both flags of every row of the
\* conversation
clear_conversation_for_both(user_id, other_user_id) ==
    /\ messages' =
         [i \in DOMAIN messages |->
            LET m == messages[i]
                between == \/ (m.sender_id = user_id /\ m.receiver_id = other_user_id)
                           \/ (m.sender_id = other_user_id /\ m.receiver_id = user_id)
            IN  IF between
                THEN [m EXCEPT !.deleted_for_sender = TRUE,
                               !.deleted_for_receiver = TRUE]
                ELSE m]
    /\ ret' = "true"
    /\ UNCHANGED <<now, connections, notifications, groups, group_members,
                   group_messages, uiProfile, uiAddContact, message_mentions,
                   pending_joins, profiles>>

\* stored procedure clear_conversation_for_user (SECURITY DEFINER)
clear_conversation_for_user(user_id, other_user_id) ==
    /\ messages' =
         [i \in DOMAIN messages |->
            LET m == messages[i]
                between == \/ (m.sender_id = user_id /\ m.receiver_id = other_user_id)
                           \/ (m.sender_id = other_user_id /\ m.receiver_id = user_id)
            IN  IF between
                THEN [m EXCEPT
                        !.deleted_for_sender =
                            IF m.sender_id = user_id THEN TRUE ELSE @,
                        !.deleted_for_receiver =
                            IF m.receiver_id = user_id THEN TRUE ELSE @]
                ELSE m]
    /\ ret' = "true"
    /\ UNCHANGED <<now, connections, notifications, groups, group_members,
                   group_messages, uiProfile, uiAddContact, message_mentions,
                   pending_joins, profiles>>

\* the rows an UPDATE through the table API can turn row m into, one column
\* at a time
MessagePatches(m) ==
    {[m EXCEPT !.deleted_for_sender = b] : b \in BOOLEAN}
    \cup {[m EXCEPT !.deleted_for_receiver = b] : b \in BOOLEAN}
    \cup {[m EXCEPT !.deleted_for_everyone = b] : b \in BOOLEAN}
    \cup {[m EXCEPT !.timestamp = now]}

\* UPDATE messages SET col = val WHERE id = message_id, as user uid, under
\* row-level security: the existing row must pass the SELECT and UPDATE
\* policies (else no row is updated), the new row the UPDATE policy's
\* WITH CHECK and the SELECT policy (else the statement fails)
update_messages(uid, message_id, newrow) ==
    /\ message_id \in DOMAIN messages
    /\ newrow \in MessagePatches(messages[message_id])
    /\ newrow # messages[message_id]
    /\ IF ~ (messages_select_policy(uid, messages[message_id])
             /\ messages_update_policy(uid, messages[message_id]))
       THEN /\ ret' = "ok"
            /\ UNCHANGED messages
       ELSE IF ~ (messages_update_policy(uid, newrow)
                  /\ messages_select_policy(uid, newrow))
       THEN /\ ret' = "error"
            /\ UNCHANGED messages
       ELSE /\ ret' = "ok"
            /\ messages' = [messages EXCEPT ![message_id] = newrow]
    /\ UNCHANGED <<now, connections, notifications, groups, group_members,
                   group_messages, uiProfile, uiAddContact, message_mentions,
                   pending_joins, profiles>>

\* mark_messages_delivered without its delivered_at IS NULL condition
mark_messages_delivered_again(receiver_user_id, sender_user_id) ==
    /\ messages' =
         [i \in DOMAIN messages |->
            LET m == messages[i]
            IN  IF /\ m.receiver_id = receiver_user_id
                   /\ m.sender_id = sender_user_id
                   /\ m.deleted_for_receiver = FALSE
                   /\ m.deleted_for_everyone = FALSE
                THEN [m EXCEPT !.delivered_at = now]
                ELSE m]
    /\ ret' = "void"
    /\ UNCHANGED <<now, connections, notifications, groups, group_members,
                   group_messages, uiProfile, uiAddContact, message_mentions,
                   pending_joins, profiles>>

\* stored procedure mark_messages_delivered
mark_messages_delivered(receiver_user_id, sender_user_id) ==
    /\ messages' =
         [i \in DOMAIN messages |->
            LET m == messages[i]
            IN  IF /\ m.receiver_id = receiver_user_id
                   /\ m.sender_id = sender_user_id
                   /\ m.delivered_at = NoTime
                   /\ m.deleted_for_receiver = FALSE
                   /\ m.deleted_for_everyone = FALSE
                THEN [m EXCEPT !.delivered_at = now]
                ELSE m]
    /\ ret' = "void"
    /\ UNCHANGED <<now, connections, notifications, groups, group_members,
                   group_messages, uiProfile, uiAddContact, message_mentions,
                   pending_joins, profiles>>

\* stored procedure mark_messages_read
mark_messages_read(receiver_user_id, sender_user_id) ==
    /\ messages' =
         [i \in DOMAIN messages |->
            LET m == messages[i]
            IN  IF /\ m.receiver_id = receiver_user_id
                   /\ m.sender_id = sender_user_id
                   /\ m.read_at = NoTime
                   /\ m.deleted_for_receiver = FALSE
                   /\ m.deleted_for_everyone = FALSE
                THEN [m EXCEPT !.read_at = now, !.read = TRUE]
                ELSE m]
    /\ ret' = "void"
    /\ UNCHANGED <<now, connections, notifications, groups, group_members,
                   group_messages, uiProfile, uiAddContact, message_mentions,
                   pending_joins, profiles>>

\* a minute passes
Tick ==
    /\ now < MaxTime
    /\ now' = now + 1
    /\ ret' = "none"
    /\ UNCHANGED <<connections, notifications, messages, groups,
                   group_members, group_messages, uiProfile, uiAddContact, message_mentions,
                   pending_joins, profiles>>

(***************************************************************************)
(* Groups                                                                  *)
(***************************************************************************)
\* rows of profiles: the users and the system user
Profiles == Users \cup {SYSTEM}

\* a text argument that is NULL
NoName == <<>>

GroupIds == 1..MaxGroups

\* a row of groups; a deleted row keeps its id
GroupRow(name, creator) == [exists |-> TRUE, name |-> name, created_by |-> creator]
DeletedGroup == [exists |-> FALSE, name |-> NoName, created_by |-> NULL]

MemberRow(g, u, role) == [group_id |-> g, user_id |-> u, role |-> role]

GroupMsgRow(g, s, t) ==
    [group_id |-> g, sender_id |-> s, timestamp |-> t,
     delivered_at |-> NoTime, read_at |-> NoTime, deleted_for_users |-> {}]

group_exists(g) == g \in DOMAIN groups /\ groups[g].exists

MembersOf(g) == {m \in group_members : m.group_id = g}

is_member(g, u) == \E m \in group_members : m.group_id = g /\ m.user_id = u

\* a unique index on groups (name), comparing names as written
idx_groups_name_exact(name, g) ==
    ~ \E h \in DOMAIN groups :
         h # g /\ groups[h].exists /\ groups[h].name = name

\* unique index idx_groups_name_unique ON groups (LOWER(name)): no row other
\* than row g carries the name
idx_groups_name_unique(name, g) ==
    ~ \E h \in DOMAIN groups :
         h # g /\ groups[h].exists /\ Lower(groups[h].name) = Lower(name)

\* create_group without its second insert
create_group_row_only(group_name, creator_id) ==
    /\ Len(groups) < MaxGroups
    /\ IF creator_id \in Profiles /\ idx_groups_name_unique(group_name, 0)
       THEN /\ groups' = Append(groups, GroupRow(group_name, creator_id))
            /\ ret' = "ok"
            /\ UNCHANGED group_members
       ELSE /\ ret' = "error"
            /\ UNCHANGED <<groups, group_members>>
    /\ UNCHANGED <<now, connections, notifications, messages, group_messages,
                   uiProfile, uiAddContact, message_mentions, pending_joins,
                   profiles>>

\* stored procedure create_group: both inserts or, on an exception, neither
create_group(group_name, creator_id) ==
    /\ Len(groups) < MaxGroups
    /\ IF creator_id \in Profiles /\ idx_groups_name_unique(group_name, 0)
       THEN /\ groups' = Append(groups, GroupRow(group_name, creator_id))
            /\ group_members' = group_members
                   \cup {MemberRow(Len(groups) + 1, creator_id, "admin")}
            /\ ret' = "ok"
       ELSE /\ ret' = "error"
            /\ UNCHANGED <<groups, group_members>>
    /\ UNCHANGED <<now, connections, notifications, messages, group_messages,
                   uiProfile, uiAddContact, message_mentions, pending_joins,
                   profiles>>

\* stored procedure send_group_system_message: the table after the insert
send_group_system_message(p_group_id) ==
    Append(group_messages, GroupMsgRow(p_group_id, SYSTEM, now))

\* stored procedure update_group_info_by_member, p_name being the only
\* column passed
update_group_info_by_member(p_group_id, p_name, p_user_id) ==
    /\ Len(group_messages) < MaxGroupMsgs
    /\ IF ~ is_member(p_group_id, p_user_id)
       THEN /\ ret' = "false"
            /\ UNCHANGED <<groups, group_messages>>
       ELSE LET old_name == groups[p_group_id].name
                renamed == p_name # NoName /\ p_name # old_name
            IN  IF renamed /\ ~ idx_groups_name_unique(p_name, p_group_id)
                THEN /\ ret' = "false"
                     /\ UNCHANGED <<groups, group_messages>>
                ELSE /\ groups' = [groups EXCEPT ![p_group_id].name =
                                      IF p_name # NoName THEN p_name ELSE @]
                     /\ group_messages' =
                           IF renamed THEN send_group_system_message(p_group_id)
                           ELSE group_messages
                     /\ ret' = "true"
    /\ UNCHANGED <<now, connections, notifications, messages, group_members,
                   uiProfile, uiAddContact, message_mentions, pending_joins,
                   profiles>>

\* INSERT policy on group_messages "Group members and system can send
\* messages"
group_messages_insert_policy(uid, row) ==
    \/ row.sender_id = SYSTEM
    \/ (row.sender_id = uid /\ is_member(row.group_id, uid))

\* GroupChatWindow.handleSendMessage for a message without mentions
GroupChatWindow_handleSendMessage(u, groupId) ==
    /\ Len(group_messages) < MaxGroupMsgs
    /\ LET row == GroupMsgRow(groupId, u, now)
       IN  IF group_exists(groupId) /\ group_messages_insert_policy(u, row)
           THEN /\ group_messages' = Append(group_messages, row)
                /\ ret' = "ok"
           ELSE /\ ret' = "error"
                /\ UNCHANGED group_messages
    /\ UNCHANGED <<now, connections, notifications, messages, groups,
                   group_members, uiProfile, uiAddContact, message_mentions,
                   pending_joins, profiles>>

\* stored procedure mark_group_messages_delivered
mark_group_messages_delivered(group_id, user_id) ==
    /\ group_messages' =
         [i \in DOMAIN group_messages |->
            LET m == group_messages[i]
            IN  IF /\ m.group_id = group_id
                   /\ m.sender_id # user_id
                   /\ m.delivered_at = NoTime
                   /\ user_id \notin m.deleted_for_users
                THEN [m EXCEPT !.delivered_at =
                                  IF @ # NoTime THEN @ ELSE now]
                ELSE m]
    /\ ret' = "void"
    /\ UNCHANGED <<now, connections, notifications, messages, groups,
                   group_members, uiProfile, uiAddContact, message_mentions,
                   pending_joins, profiles>>

\* stored procedure mark_group_messages_read
mark_group_messages_read(group_id, user_id) ==
    /\ group_messages' =
         [i \in DOMAIN group_messages |->
            LET m == group_messages[i]
            IN  IF /\ m.group_id = group_id
                   /\ m.sender_id # user_id
                   /\ m.read_at = NoTime
                   /\ user_id \notin m.deleted_for_users
                THEN [m EXCEPT !.read_at = IF @ # NoTime THEN @ ELSE now]
                ELSE m]
    /\ ret' = "void"
    /\ UNCHANGED <<now, connections, notifications, messages, groups,
                   group_members, uiProfile, uiAddContact, message_mentions,
                   pending_joins, profiles>>

(***************************************************************************)
(* Group membership                                                        *)
(***************************************************************************)
\* SELECT ... FROM profiles WHERE email = LOWER(TRIM(p_user_email)): the
\* set of matching profile ids
profiles_by_email(p_user_email) ==
    {u \in Users : EmailOf(u) = Lower(p_user_email)}

are_users_connected(user1_id, user2_id) ==
    \E c \in connections :
        /\ c.status = "accepted"
        /\ \/ (c.requester_id = user1_id /\ c.receiver_id = user2_id)
           \/ (c.requester_id = user2_id /\ c.receiver_id = user1_id)

GroupInviteNotification(target, g, by, flag) ==
    [user_id |-> target, type |-> "group_invite", is_read |-> FALSE,
     from |-> by, group_id |-> g, flag |-> flag, connection_id |-> NULL]

\* add_user_to_group_with_check without its are_users_connected test: the
\* target is inserted whether or not the two users are connected
add_user_to_group_with_check_always_adds(p_group_id, p_user_email, p_added_by, p_send_notification) ==
    /\ p_send_notification => Len(notifications) < MaxNotifs
    /\ IF ~ is_member(p_group_id, p_added_by)
       THEN /\ ret' = "only_members_can_add"
            /\ UNCHANGED <<group_members, notifications>>
       ELSE IF profiles_by_email(p_user_email) = {}
       THEN /\ ret' = "user_not_found"
            /\ UNCHANGED <<group_members, notifications>>
       ELSE LET target_user_id == CHOOSE u \in profiles_by_email(p_user_email) : TRUE
            IN  IF is_member(p_group_id, target_user_id)
                THEN /\ ret' = "already_member"
                     /\ UNCHANGED <<group_members, notifications>>
                ELSE /\ group_members' = group_members
                          \cup {MemberRow(p_group_id, target_user_id, "member")}
                     /\ notifications' =
                          IF p_send_notification
                          THEN Append(notifications,
                                 GroupInviteNotification(target_user_id, p_group_id,
                                                         p_added_by, "auto_added"))
                          ELSE notifications
                     /\ ret' = "auto_added"
    /\ UNCHANGED <<now, connections, messages, groups, group_messages,
                   uiProfile, uiAddContact, message_mentions, pending_joins,
                   profiles>>

\* add_user_to_group_with_check without its first test: a user who is not a
\* member of the group can add or invite
add_user_to_group_with_check_any_actor(p_group_id, p_user_email, p_added_by, p_send_notification) ==
    /\ p_send_notification => Len(notifications) < MaxNotifs
    /\ IF profiles_by_email(p_user_email) = {}
       THEN /\ ret' = "user_not_found"
            /\ UNCHANGED <<group_members, notifications>>
       ELSE LET target_user_id == CHOOSE u \in profiles_by_email(p_user_email) : TRUE
            IN  IF is_member(p_group_id, target_user_id)
                THEN /\ ret' = "already_member"
                     /\ UNCHANGED <<group_members, notifications>>
                ELSE IF are_users_connected(p_added_by, target_user_id)
                THEN /\ group_members' = group_members
                          \cup {MemberRow(p_group_id, target_user_id, "member")}
                     /\ notifications' =
                          IF p_send_notification
                          THEN Append(notifications,
                                 GroupInviteNotification(target_user_id, p_group_id,
                                                         p_added_by, "auto_added"))
                          ELSE notifications
                     /\ ret' = "auto_added"
                ELSE /\ notifications' =
                          IF p_send_notification
                          THEN Append(notifications,
                                 GroupInviteNotification(target_user_id, p_group_id,
                                                         p_added_by, "requires_acceptance"))
                          ELSE notifications
                     /\ ret' = "invitation_sent"
                     /\ UNCHANGED group_members
    /\ UNCHANGED <<now, connections, messages, groups, group_messages,
                   uiProfile, uiAddContact, message_mentions, pending_joins,
                   profiles>>

\* stored procedure add_user_to_group_with_check
add_user_to_group_with_check(p_group_id, p_user_email, p_added_by, p_send_notification) ==
    /\ p_send_notification => Len(notifications) < MaxNotifs
    /\ IF ~ is_member(p_group_id, p_added_by)
       THEN /\ ret' = "only_members_can_add"
            /\ UNCHANGED <<group_members, notifications>>
       ELSE IF profiles_by_email(p_user_email) = {}
       THEN /\ ret' = "user_not_found"
            /\ UNCHANGED <<group_members, notifications>>
       ELSE LET target_user_id == CHOOSE u \in profiles_by_email(p_user_email) : TRUE
            IN  IF is_member(p_group_id, target_user_id)
                THEN /\ ret' = "already_member"
                     /\ UNCHANGED <<group_members, notifications>>
                ELSE IF are_users_connected(p_added_by, target_user_id)
                THEN /\ group_members' = group_members
                          \cup {MemberRow(p_group_id, target_user_id, "member")}
                     /\ notifications' =
                          IF p_send_notification
                          THEN Append(notifications,
                                 GroupInviteNotification(target_user_id, p_group_id,
                                                         p_added_by, "auto_added"))
                          ELSE notifications
                     /\ ret' = "auto_added"
                ELSE /\ notifications' =
                          IF p_send_notification
                          THEN Append(notifications,
                                 GroupInviteNotification(target_user_id, p_group_id,
                                                         p_added_by, "requires_acceptance"))
                          ELSE notifications
                     /\ ret' = "invitation_sent"
                     /\ UNCHANGED group_members
    /\ UNCHANGED <<now, connections, messages, groups, group_messages,
                   uiProfile, uiAddContact, message_mentions, pending_joins,
                   profiles>>

\* the jsonb object add_user_to_group_with_check returns, for each of its
\* five RETURN statements; a key the object does not carry is "absent"
add_user_to_group_result(r) ==
    CASE r = "only_members_can_add" ->
            [success |-> FALSE, auto_added |-> "absent", user_exists |-> "absent"]
      [] r = "user_not_found" ->
            [success |-> FALSE, auto_added |-> "absent", user_exists |-> "false"]
      [] r = "already_member" ->
            [success |-> FALSE, auto_added |-> "absent", user_exists |-> "absent"]
      [] r = "auto_added" ->
            [success |-> TRUE, auto_added |-> "true", user_exists |-> "true"]
      [] r = "invitation_sent" ->
            [success |-> TRUE, auto_added |-> "false", user_exists |-> "true"]

\* stored procedure accept_group_invitation; the insert fails on the foreign
\* key when the group does not exist
accept_group_invitation(p_group_id, p_user_id) ==
    /\ IF is_member(p_group_id, p_user_id)
       THEN /\ ret' = "false"
            /\ UNCHANGED <<group_members, notifications>>
       ELSE IF ~ group_exists(p_group_id) \/ p_user_id \notin Profiles
       THEN /\ ret' = "error"
            /\ UNCHANGED <<group_members, notifications>>
       ELSE /\ group_members' = group_members
                 \cup {MemberRow(p_group_id, p_user_id, "member")}
            /\ notifications' =
                 [i \in DOMAIN notifications |->
                    LET n == notifications[i]
                    IN  IF /\ n.user_id = p_user_id
                           /\ n.type = "group_invite"
                           /\ n.group_id = p_group_id
                        THEN [n EXCEPT !.is_read = TRUE]
                        ELSE n]
            /\ ret' = "true"
    /\ UNCHANGED <<now, connections, messages, groups, group_messages,
                   uiProfile, uiAddContact, message_mentions, pending_joins,
                   profiles>>

\* DELETE FROM groups WHERE id = g, with its ON DELETE CASCADE
GroupsWithout(g) == [groups EXCEPT ![g] = DeletedGroup]
MembersWithout(g) == {m \in group_members : m.group_id # g}
GroupMessagesWithout(g) ==
    SelectSeq(group_messages, LAMBDA m : m.group_id # g)

\* message_mentions.message_id REFERENCES group_messages ON DELETE CASCADE:
\* the mentions of the remaining messages, a message's id being its place
\* in group_messages
MentionsWithout(g) ==
    LET kept == SelectSeq(message_mentions,
                          LAMBDA r : group_messages[r.message_id].group_id # g)
        place(i) == Cardinality({j \in 1..i : group_messages[j].group_id # g})
    IN  [k \in DOMAIN kept |-> [kept[k] EXCEPT !.message_id = place(@)]]

\* the UPDATE without its user_id condition: every member of g becomes admin
Promoted_all(members, g, u) ==
    {IF m.group_id = g THEN [m EXCEPT !.role = "admin"] ELSE m : m \in members}

\* the UPDATE setting the role of every row of the group: admin for u,
\* member for the others
Promoted_resetting_others(members, g, u) ==
    {IF m.group_id = g
     THEN [m EXCEPT !.role = IF m.user_id = u THEN "admin" ELSE "member"]
     ELSE m : m \in members}

\* UPDATE group_members SET role = 'admin' WHERE group_id = g AND user_id = u
Promoted(members, g, u) ==
    {IF m.group_id = g /\ m.user_id = u THEN [m EXCEPT !.role = "admin"] ELSE m :
        m \in members}

\* stored procedure leave_group_with_management; LIMIT 1 without ORDER BY
\* picks any qualifying row
leave_group_with_management(p_group_id, p_user_id, p_new_admin_id) ==
    /\ Len(group_messages) < MaxGroupMsgs
    /\ IF ~ is_member(p_group_id, p_user_id)
       THEN /\ ret' = "false"
            /\ UNCHANGED <<groups, group_members, group_messages, message_mentions>>
       ELSE LET is_creator == groups[p_group_id].created_by = p_user_id
                is_admin == MemberRow(p_group_id, p_user_id, "admin") \in group_members
                member_count == Cardinality(MembersOf(p_group_id))
                others == {m.user_id : m \in MembersOf(p_group_id)} \ {p_user_id}
            IN  IF member_count = 1
                THEN /\ groups' = GroupsWithout(p_group_id)
                     /\ group_members' = MembersWithout(p_group_id)
                     /\ group_messages' = GroupMessagesWithout(p_group_id)
                     /\ message_mentions' = MentionsWithout(p_group_id)
                     /\ ret' = "group_deleted"
                ELSE IF ~ (is_creator \/ is_admin)
                THEN /\ group_members' = group_members
                          \ {m \in group_members :
                                m.group_id = p_group_id /\ m.user_id = p_user_id}
                     /\ group_messages' = send_group_system_message(p_group_id)
                     /\ ret' = "left_group"
                     /\ UNCHANGED <<groups, message_mentions>>
                ELSE IF p_new_admin_id # NULL
                THEN IF is_creator /\ p_new_admin_id \notin Profiles
                     THEN /\ ret' = "error"
                          /\ UNCHANGED <<groups, group_members, group_messages,
                                         message_mentions>>
                     ELSE /\ group_members' =
                               Promoted(group_members, p_group_id, p_new_admin_id)
                               \ {m \in Promoted(group_members, p_group_id, p_new_admin_id) :
                                     m.group_id = p_group_id /\ m.user_id = p_user_id}
                          /\ groups' = IF is_creator
                                       THEN [groups EXCEPT ![p_group_id].created_by =
                                                p_new_admin_id]
                                       ELSE groups
                          /\ group_messages' = send_group_system_message(p_group_id)
                          /\ ret' = "left_group"
                          /\ UNCHANGED message_mentions
                ELSE \E first \in others :
                       LET promoted == Promoted(group_members, p_group_id, first)
                           admins == {m.user_id : m \in
                                        {n \in promoted : /\ n.group_id = p_group_id
                                                          /\ n.user_id # p_user_id
                                                          /\ n.role = "admin"}}
                       IN  \E owner \in admins :
                              /\ group_members' = promoted
                                    \ {m \in promoted :
                                          m.group_id = p_group_id /\ m.user_id = p_user_id}
                              /\ groups' = IF is_creator
                                           THEN [groups EXCEPT ![p_group_id].created_by =
                                                    owner]
                                           ELSE groups
                              /\ group_messages' = send_group_system_message(p_group_id)
                              /\ ret' = "left_group"
                              /\ UNCHANGED message_mentions
    /\ UNCHANGED <<now, connections, notifications, messages, uiProfile,
                   uiAddContact, pending_joins, profiles>>

\* stored procedure leave_group; an exception (the system message's foreign
\* key on a missing group, its NULL content for a missing profile) is caught
\* and the call returns false
leave_group(p_group_id, p_user_id) ==
    /\ Len(group_messages) < MaxGroupMsgs
    /\ IF ~ group_exists(p_group_id) \/ p_user_id \notin Profiles
       THEN /\ ret' = "false"
            /\ UNCHANGED <<group_members, group_messages>>
       ELSE /\ group_messages' = send_group_system_message(p_group_id)
            /\ group_members' = group_members
                 \ {m \in group_members :
                       m.group_id = p_group_id /\ m.user_id = p_user_id}
            /\ ret' = "true"
    /\ UNCHANGED <<now, connections, notifications, messages, groups,
                   uiProfile, uiAddContact, message_mentions, pending_joins,
                   profiles>>

(***************************************************************************)
(* GroupChatWindow handlers, under the row-level security policies         *)
(***************************************************************************)
\* SELECT policy "Users can view their own group memberships"
group_members_select_policy(uid, row) == row.user_id = uid

\* DELETE policy "Users can delete their own membership"
group_members_delete_policy(uid, row) == row.user_id = uid

\* group_members has no UPDATE policy
group_members_update_policy(uid, row) == FALSE

\* UPDATE policy "Group creators can update their groups": USING and
\* WITH CHECK are the same expression
groups_update_policy(uid, row) == row.created_by = uid

\* groups has no DELETE policy
groups_delete_policy(uid, row) == FALSE

\* UPDATE group_members SET role = r WHERE group_id = g AND user_id = target,
\* as user uid: rows the policy does not admit are not updated
RoleUpdated(members, uid, g, target, r) ==
    {IF /\ m.group_id = g /\ m.user_id = target
        /\ group_members_update_policy(uid, m)
     THEN [m EXCEPT !.role = r] ELSE m : m \in members}

\* GroupChatWindow.handleTransferAdmin: the update of groups.created_by
\* throws when the new row fails WITH CHECK; the later results are ignored
handleTransferAdmin(u, groupId, newAdminId) ==
    /\ group_exists(groupId)
    /\ u = groups[groupId].created_by
    /\ Len(group_messages) < MaxGroupMsgs
    /\ LET newrow == [groups[groupId] EXCEPT !.created_by = newAdminId]
       IN  IF ~ groups_update_policy(u, groups[groupId])
           THEN /\ ret' = "ok"
                /\ group_members' = RoleUpdated(
                       RoleUpdated(group_members, u, groupId, u, "member"),
                       u, groupId, newAdminId, "admin")
                /\ group_messages' = Append(group_messages,
                                            GroupMsgRow(groupId, SYSTEM, now))
                /\ UNCHANGED groups
           ELSE IF ~ groups_update_policy(u, newrow) \/ newAdminId \notin Profiles
           THEN /\ ret' = "error"
                /\ UNCHANGED <<groups, group_members, group_messages>>
           ELSE /\ ret' = "ok"
                /\ groups' = [groups EXCEPT ![groupId] = newrow]
                /\ group_members' = RoleUpdated(
                       RoleUpdated(group_members, u, groupId, u, "member"),
                       u, groupId, newAdminId, "admin")
                /\ group_messages' = Append(group_messages,
                                            GroupMsgRow(groupId, SYSTEM, now))
    /\ UNCHANGED <<now, connections, notifications, messages, uiProfile,
                   uiAddContact, message_mentions, pending_joins, profiles>>

\* GroupChatWindow.handleDeleteGroup: a DELETE that no policy admits deletes
\* no row and reports no error
handleDeleteGroup(u, groupId) ==
    /\ group_exists(groupId)
    /\ u = groups[groupId].created_by
    /\ IF groups_delete_policy(u, groups[groupId])
       THEN /\ groups' = GroupsWithout(groupId)
            /\ group_members' = MembersWithout(groupId)
            /\ group_messages' = GroupMessagesWithout(groupId)
            /\ message_mentions' = MentionsWithout(groupId)
       ELSE UNCHANGED <<groups, group_members, group_messages, message_mentions>>
    /\ ret' = "ok"
    /\ UNCHANGED <<now, connections, notifications, messages, uiProfile,
                   uiAddContact, pending_joins, profiles>>

\* GroupChatWindow.handleLeaveGroup; members is what fetchMembers can read
handleLeaveGroup(u, groupId) ==
    /\ group_exists(groupId)
    /\ is_member(groupId, u)
    /\ LET isGroupAdmin == u = groups[groupId].created_by
           members == {m \in MembersOf(groupId) : group_members_select_policy(u, m)}
           otherMembers == {m \in members : m.user_id # u}
       IN  IF isGroupAdmin /\ otherMembers # {}
           THEN /\ ret' = "showTransferAdmin"
                /\ UNCHANGED <<groups, group_members, group_messages,
                               message_mentions>>
           ELSE IF isGroupAdmin
           THEN handleDeleteGroup(u, groupId)
           ELSE /\ Len(group_messages) < MaxGroupMsgs
                /\ group_messages' = Append(group_messages,
                                            GroupMsgRow(groupId, SYSTEM, now))
                /\ group_members' = group_members
                     \ {m \in group_members :
                           /\ m.group_id = groupId /\ m.user_id = u
                           /\ group_members_delete_policy(u, m)}
                /\ ret' = "ok"
                /\ UNCHANGED <<groups, message_mentions>>
    /\ UNCHANGED <<now, connections, notifications, messages, uiProfile,
                   uiAddContact, pending_joins, profiles>>

(***************************************************************************)
(* Mentions in group messages                                              *)
(***************************************************************************)
MentionRow(message_id, mentioned_user_id, mentioned_by) ==
    [message_id |-> message_id, mentioned_user_id |-> mentioned_user_id,
     mentioned_by |-> mentioned_by, is_read |-> FALSE]

\* the notification of a mention; its data also names the message
MentionNotification(mentioned_user_id, g, by) ==
    [user_id |-> mentioned_user_id, type |-> "mention", is_read |-> FALSE,
     from |-> by, group_id |-> g, flag |-> NULL, connection_id |-> NULL]

\* stored procedure send_group_message_with_mentions (SECURITY DEFINER):
\* the message, then FOREACH element of the array one mention row and one
\* notification; a foreign-key violation aborts the call and undoes it all
send_group_message_with_mentions(p_group_id, p_sender_id, p_mentioned_users) ==
    /\ Len(group_messages) < MaxGroupMsgs
    /\ Len(notifications) + Len(p_mentioned_users) <= MaxNotifs
    /\ IF \/ ~ group_exists(p_group_id)
          \/ p_sender_id \notin Profiles
          \/ \E i \in DOMAIN p_mentioned_users : p_mentioned_users[i] \notin Profiles
       THEN /\ ret' = "error"
            /\ UNCHANGED <<group_messages, message_mentions, notifications>>
       ELSE LET message_id == Len(group_messages) + 1
            IN  /\ group_messages' = Append(group_messages,
                                            GroupMsgRow(p_group_id, p_sender_id, now))
                /\ message_mentions' = message_mentions \o
                      [i \in DOMAIN p_mentioned_users |->
                         MentionRow(message_id, p_mentioned_users[i], p_sender_id)]
                /\ notifications' = notifications \o
                      [i \in DOMAIN p_mentioned_users |->
                         MentionNotification(p_mentioned_users[i], p_group_id,
                                             p_sender_id)]
                /\ ret' = "ok"
    /\ UNCHANGED <<now, connections, messages, groups, group_members,
                   uiProfile, uiAddContact, pending_joins, profiles>>

\* profiles.display_name of each user, as a string of characters
DisplayNameOf(u) ==
    CASE u = "u1" -> <<"A">>
      [] u = "u2" -> <<"B">>
      [] u = "u3" -> <<"c">>

\* String.startsWith
startsWith(str, prefix) ==
    /\ Len(prefix) <= Len(str)
    /\ SubSeq(str, 1, Len(prefix)) = prefix

\* the test of members.find in parseMentions
mentionMatches(u, username) ==
    \/ Lower(DisplayNameOf(u)) = Lower(username)
    \/ startsWith(Lower(EmailOf(u)), Lower(username))
    \/ Lower(EmailOf(u)) = Lower(username)

includes(mentions, x) == \E i \in DOMAIN mentions : mentions[i] = x

\* GroupChatWindow.parseMentions: usernames are the @names of the text in
\* order, members the user ids of the rows fetchMembers loaded; each name
\* that finds a member adds that member unless already listed
RECURSIVE parseMentions(_, _, _)
parseMentions(usernames, members, mentions) ==
    IF usernames = <<>> THEN mentions
    ELSE LET username == Head(usernames)
             found == {u \in members : mentionMatches(u, username)}
         IN  IF found = {}
             THEN parseMentions(Tail(usernames), members, mentions)
             ELSE LET mentionedMember == CHOOSE u \in found : TRUE
                  IN  parseMentions(Tail(usernames), members,
                         IF includes(mentions, mentionedMember) THEN mentions
                         ELSE Append(mentions, mentionedMember))

\* GroupChatWindow.handleSendMessage for a text with @names: the insert into
\* group_messages under row-level security, then, when a name resolved, the
\* call of send_group_message_with_mentions, which inserts the message again
GroupChatWindow_handleSendMessage_mentions(u, groupId, usernames) ==
    /\ usernames # <<>>
    /\ Len(group_messages) + 2 <= MaxGroupMsgs
    /\ LET members == {m.user_id : m \in
                         {r \in MembersOf(groupId) : group_members_select_policy(u, r)}}
           mentions == parseMentions(usernames, members, <<>>)
           row == GroupMsgRow(groupId, u, now)
       IN  /\ Len(notifications) + Len(mentions) <= MaxNotifs
           /\ IF ~ (group_exists(groupId) /\ group_messages_insert_policy(u, row))
              THEN /\ ret' = "error"
                   /\ UNCHANGED <<group_messages, message_mentions, notifications>>
              ELSE IF mentions = <<>>
              THEN /\ group_messages' = Append(group_messages, row)
                   /\ ret' = "ok"
                   /\ UNCHANGED <<message_mentions, notifications>>
              ELSE /\ group_messages' = Append(Append(group_messages, row), row)
                   /\ message_mentions' = message_mentions \o
                         [i \in DOMAIN mentions |->
                            MentionRow(Len(group_messages) + 2, mentions[i], u)]
                   /\ notifications' = notifications \o
                         [i \in DOMAIN mentions |->
                            MentionNotification(mentions[i], groupId, u)]
                   /\ ret' = "ok"
    /\ UNCHANGED <<now, connections, messages, groups, group_members,
                   uiProfile, uiAddContact, pending_joins, profiles>>

(***************************************************************************)
(* Deleting group messages                                                 *)
(***************************************************************************)
\* interval '24 hours' of delete_group_message_for_everyone, in minutes
GroupDeleteWindow == 1440

GroupMsgIds == 1..MaxGroupMsgs

\* SELECT policy "Group members can view messages" on group_messages
group_messages_select_policy(uid, m) ==
    /\ is_member(m.group_id, uid)
    /\ uid \notin m.deleted_for_users

\* DELETE FROM group_messages WHERE id = message_id: the rows that remain,
\* a message's id being its place in group_messages
GroupMessagesWithoutMessage(message_id) ==
    [k \in 1..(Len(group_messages) - 1) |->
        IF k < message_id THEN group_messages[k] ELSE group_messages[k + 1]]

\* message_mentions.message_id REFERENCES group_messages ON DELETE CASCADE
MentionsWithoutMessage(message_id) ==
    LET kept == SelectSeq(message_mentions,
                          LAMBDA r : r.message_id # message_id)
    IN  [k \in DOMAIN kept |->
            [kept[k] EXCEPT !.message_id =
                                IF @ > message_id THEN @ - 1 ELSE @]]

\* delete_group_message_for_everyone without its time limit
delete_group_message_for_everyone_any_age(message_id, user_id) ==
    /\ IF \/ message_id \notin DOMAIN group_messages
          \/ group_messages[message_id].sender_id # user_id
       THEN /\ ret' = "false"
            /\ UNCHANGED <<group_messages, message_mentions>>
       ELSE /\ group_messages' = GroupMessagesWithoutMessage(message_id)
            /\ message_mentions' = MentionsWithoutMessage(message_id)
            /\ ret' = "true"
    /\ UNCHANGED <<now, connections, notifications, messages, groups,
                   group_members, uiProfile, uiAddContact, pending_joins,
                   profiles>>

\* stored procedure delete_group_message_for_everyone (SECURITY DEFINER)
delete_group_message_for_everyone(message_id, user_id) ==
    /\ IF message_id \notin DOMAIN group_messages
       THEN /\ ret' = "false"
            /\ UNCHANGED <<group_messages, message_mentions>>
       ELSE LET message_record == group_messages[message_id]
                time_limit == now - GroupDeleteWindow
            IN  IF message_record.sender_id # user_id
                THEN /\ ret' = "false"
                     /\ UNCHANGED <<group_messages, message_mentions>>
                ELSE IF message_record.timestamp < time_limit
                THEN /\ ret' = "false"
                     /\ UNCHANGED <<group_messages, message_mentions>>
                ELSE /\ group_messages' =
                            GroupMessagesWithoutMessage(message_id)
                     /\ message_mentions' = MentionsWithoutMessage(message_id)
                     /\ ret' = "true"
    /\ UNCHANGED <<now, connections, notifications, messages, groups,
                   group_members, uiProfile, uiAddContact, pending_joins,
                   profiles>>

\* stored procedure delete_group_message_for_user (SECURITY DEFINER):
\* RETURN FOUND
delete_group_message_for_user(message_id, user_id) ==
    /\ IF /\ message_id \in DOMAIN group_messages
          /\ \/ group_messages[message_id].sender_id = user_id
             \/ is_member(group_messages[message_id].group_id, user_id)
       THEN /\ group_messages' =
                 [group_messages EXCEPT ![message_id].deleted_for_users =
                                            @ \cup {user_id}]
            /\ ret' = "found"
       ELSE /\ ret' = "not_found"
            /\ UNCHANGED group_messages
    /\ UNCHANGED <<now, connections, notifications, messages, groups,
                   group_members, uiProfile, uiAddContact, message_mentions,
                   pending_joins, profiles>>

\* d minutes pass at once
Elapse(d) ==
    /\ now <= MaxTime
    /\ now' = now + d
    /\ ret' = "none"
    /\ UNCHANGED <<connections, notifications, messages, groups,
                   group_members, group_messages, uiProfile, uiAddContact,
                   message_mentions, pending_joins, profiles>>

(***************************************************************************)
(* Retention sweep of direct messages                                      *)
(***************************************************************************)
\* interval '1 hour' of cleanup_deleted_messages, in minutes
CleanupAge == 60

\* cleanup_deleted_messages with OR between the two flags of its second
\* DELETE
cleanup_deleted_messages_either_flag ==
    /\ LET first == SelectSeq(messages,
                      LAMBDA m : ~ (/\ m.deleted_for_everyone = TRUE
                                    /\ m.timestamp < now - CleanupAge))
       IN  messages' = SelectSeq(first,
                      LAMBDA m : ~ (/\ (m.deleted_for_sender = TRUE
                                        \/ m.deleted_for_receiver = TRUE)
                                    /\ m.timestamp < now - CleanupAge))
    /\ ret' = "void"
    /\ UNCHANGED <<now, connections, notifications, groups, group_members,
                   group_messages, uiProfile, uiAddContact, message_mentions,
                   pending_joins, profiles>>

\* stored procedure cleanup_deleted_messages: its two DELETE statements, one
\* after the other
cleanup_deleted_messages ==
    /\ LET first == SelectSeq(messages,
                      LAMBDA m : ~ (/\ m.deleted_for_everyone = TRUE
                                    /\ m.timestamp < now - CleanupAge))
       IN  messages' = SelectSeq(first,
                      LAMBDA m : ~ (/\ m.deleted_for_sender = TRUE
                                    /\ m.deleted_for_receiver = TRUE
                                    /\ m.timestamp < now - CleanupAge))
    /\ ret' = "void"
    /\ UNCHANGED <<now, connections, notifications, groups, group_members,
                   group_messages, uiProfile, uiAddContact, message_mentions,
                   pending_joins, profiles>>

(***************************************************************************)
(* group_members through the table API                                     *)
(***************************************************************************)
Roles == {"admin", "member"}

\* INSERT policy "Users can insert their own membership"
group_members_insert_policy(uid, row) == row.user_id = uid

\* group_members without its unique constraint
group_members_unique_absent(g, u) == TRUE

\* UNIQUE(group_id, user_id) on group_members
group_members_unique_ok(g, u) == ~ is_member(g, u)

\* INSERT INTO group_members (group_id, user_id, role) as user uid, under
\* row-level security, the foreign key on groups and the unique constraint
insert_group_members(uid, row) ==
    /\ IF /\ group_members_insert_policy(uid, row)
          /\ group_exists(row.group_id)
          /\ group_members_unique_ok(row.group_id, row.user_id)
       THEN /\ group_members' = group_members \cup {row}
            /\ ret' = "inserted"
       ELSE /\ ret' = "insert_error"
            /\ UNCHANGED group_members
    /\ UNCHANGED <<now, connections, notifications, messages, groups,
                   group_messages, uiProfile, uiAddContact, message_mentions,
                   pending_joins, profiles>>

(***************************************************************************)
(* Concurrent joins: the statements of a call, one at a time               *)
(***************************************************************************)
\* a call that has run its IF EXISTS check on group_members and found no row
JoinCall(proc, g, u, by, send) ==
    [proc |-> proc, group_id |-> g, user_id |-> u, added_by |-> by,
     send |-> send]

\* add_user_to_group_with_check down to its INSERT INTO group_members: the
\* checks pass and the two users are connected
add_user_to_group_with_check_checks(p_group_id, p_user_email, p_added_by, p_send_notification) ==
    /\ is_member(p_group_id, p_added_by)
    /\ profiles_by_email(p_user_email) # {}
    /\ LET target_user_id == CHOOSE u \in profiles_by_email(p_user_email) : TRUE
       IN  /\ ~ is_member(p_group_id, target_user_id)
           /\ are_users_connected(p_added_by, target_user_id)
           /\ pending_joins' = pending_joins \cup
                 {JoinCall("add_user_to_group_with_check", p_group_id,
                           target_user_id, p_added_by, p_send_notification)}
    /\ ret' = "none"
    /\ UNCHANGED <<now, connections, notifications, messages, groups,
                   group_members, group_messages, uiProfile, uiAddContact,
                   message_mentions, profiles>>

\* add_user_to_group_with_check from its INSERT INTO group_members on; a
\* violated constraint raises an exception and the call changes nothing
add_user_to_group_with_check_insert(c) ==
    /\ c \in pending_joins
    /\ c.proc = "add_user_to_group_with_check"
    /\ c.send => Len(notifications) < MaxNotifs
    /\ pending_joins' = pending_joins \ {c}
    /\ IF ~ group_exists(c.group_id)
       THEN /\ ret' = "error"
            /\ UNCHANGED <<group_members, notifications>>
       ELSE IF ~ group_members_unique_ok(c.group_id, c.user_id)
       THEN /\ ret' = "unique_violation"
            /\ UNCHANGED <<group_members, notifications>>
       ELSE /\ group_members' = group_members
                 \cup {MemberRow(c.group_id, c.user_id, "member")}
            /\ notifications' =
                 IF c.send
                 THEN Append(notifications,
                        GroupInviteNotification(c.user_id, c.group_id,
                                                c.added_by, "auto_added"))
                 ELSE notifications
            /\ ret' = "auto_added"
    /\ UNCHANGED <<now, connections, messages, groups, group_messages,
                   uiProfile, uiAddContact, message_mentions, profiles>>

\* accept_group_invitation down to its INSERT: the user is not a member
accept_group_invitation_checks(p_group_id, p_user_id) ==
    /\ ~ is_member(p_group_id, p_user_id)
    /\ pending_joins' = pending_joins \cup
          {JoinCall("accept_group_invitation", p_group_id, p_user_id,
                    p_user_id, FALSE)}
    /\ ret' = "none"
    /\ UNCHANGED <<now, connections, notifications, messages, groups,
                   group_members, group_messages, uiProfile, uiAddContact,
                   message_mentions, profiles>>

\* accept_group_invitation from its INSERT on
accept_group_invitation_insert(c) ==
    /\ c \in pending_joins
    /\ c.proc = "accept_group_invitation"
    /\ pending_joins' = pending_joins \ {c}
    /\ IF ~ group_exists(c.group_id)
       THEN /\ ret' = "error"
            /\ UNCHANGED <<group_members, notifications>>
       ELSE IF ~ group_members_unique_ok(c.group_id, c.user_id)
       THEN /\ ret' = "unique_violation"
            /\ UNCHANGED <<group_members, notifications>>
       ELSE /\ group_members' = group_members
                 \cup {MemberRow(c.group_id, c.user_id, "member")}
            /\ notifications' =
                 [i \in DOMAIN notifications |->
                    LET n == notifications[i]
                    IN  IF /\ n.user_id = c.user_id
                           /\ n.type = "group_invite"
                           /\ n.group_id = c.group_id
                        THEN [n EXCEPT !.is_read = TRUE]
                        ELSE n]
            /\ ret' = "true"
    /\ UNCHANGED <<now, connections, messages, groups, group_messages,
                   uiProfile, uiAddContact, message_mentions, profiles>>

(***************************************************************************)
(* group_messages through the table API                                    *)
(***************************************************************************)
\* INSERT INTO group_messages (group_id, sender_id, ...) as user uid, under
\* the INSERT policy and the foreign keys on groups and profiles
insert_group_messages(uid, row) ==
    /\ Len(group_messages) < MaxGroupMsgs
    /\ IF /\ group_messages_insert_policy(uid, row)
          /\ group_exists(row.group_id)
          /\ row.sender_id \in Profiles
       THEN /\ group_messages' = Append(group_messages, row)
            /\ ret' = "inserted"
       ELSE /\ ret' = "insert_error"
            /\ UNCHANGED group_messages
    /\ UNCHANGED <<now, connections, notifications, messages, groups,
                   group_members, uiProfile, uiAddContact, message_mentions,
                   pending_joins, profiles>>

(***************************************************************************)
(* Presence and the sweep of inactive accounts                             *)
(***************************************************************************)
\* CHECK (status IN ('online', 'offline', 'away'))
Statuses == {"online", "offline", "away"}

\* interval '5 days' of cleanup_inactive_accounts, in minutes
InactiveAge == 7200

\* AuthContext.updateUserStatus: upsert of the signed-in user's status and
\* last_active; profiles.id references auth.users, so the upsert of a user
\* whose account is gone fails
updateUserStatus(u, status) ==
    /\ IF profiles[u].exists
       THEN /\ profiles' = [profiles EXCEPT ![u] = ProfileRow(status, now)]
            /\ ret' = "ok"
       ELSE /\ ret' = "upsert_error"
            /\ UNCHANGED profiles
    /\ UNCHANGED <<now, connections, notifications, messages, groups,
                   group_members, group_messages, uiProfile, uiAddContact,
                   message_mentions, pending_joins>>

\* the SELECT of cleanup_inactive_accounts; the system user's row has status
\* 'online' and is never selected
InactiveProfiles ==
    {u \in Users : /\ profiles[u].exists
                   /\ profiles[u].last_active < now - InactiveAge
                   /\ profiles[u].status = "offline"}

\* groups.created_by REFERENCES profiles(id) ON DELETE CASCADE
GroupsCreatedBy(us) ==
    {g \in DOMAIN groups : groups[g].exists /\ groups[g].created_by \in us}

\* stored procedure cleanup_inactive_accounts (SECURITY DEFINER, granted to
\* service_role): DELETE FROM auth.users for every selected id, with the
\* ON DELETE CASCADE of every foreign key that leads to the deleted rows;
\* returns the number of deleted users
cleanup_inactive_accounts ==
    LET inactive == InactiveProfiles
        gone_groups == GroupsCreatedBy(inactive)
        keptMessage(m) == /\ m.group_id \notin gone_groups
                          /\ m.sender_id \notin inactive
        place(i) == Cardinality({j \in 1..i : keptMessage(group_messages[j])})
        keptMention(r) == /\ keptMessage(group_messages[r.message_id])
                          /\ r.mentioned_user_id \notin inactive
                          /\ r.mentioned_by \notin inactive
        kept_mentions == SelectSeq(message_mentions, keptMention)
    IN  /\ profiles' = [u \in Users |-> IF u \in inactive THEN DeletedProfile
                                        ELSE profiles[u]]
        /\ connections' = {c \in connections :
                               /\ c.requester_id \notin inactive
                               /\ c.receiver_id \notin inactive}
        /\ notifications' =
               SelectSeq(notifications, LAMBDA n : n.user_id \notin inactive)
        /\ messages' = SelectSeq(messages,
                                 LAMBDA m : /\ m.sender_id \notin inactive
                                            /\ m.receiver_id \notin inactive)
        /\ groups' = [g \in DOMAIN groups |->
                          IF g \in gone_groups THEN DeletedGroup
                          ELSE groups[g]]
        /\ group_members' = {m \in group_members :
                                 /\ m.group_id \notin gone_groups
                                 /\ m.user_id \notin inactive}
        /\ group_messages' = SelectSeq(group_messages, keptMessage)
        /\ message_mentions' =
               [k \in DOMAIN kept_mentions |->
                   [kept_mentions[k] EXCEPT
                       !.message_id = place(kept_mentions[k].message_id)]]
        /\ ret' = ToString(Cardinality(inactive))
        /\ UNCHANGED <<now, uiProfile, uiAddContact, pending_joins>>

(***************************************************************************)
(* Initial state: empty tables, nobody has a modal open                    *)
(***************************************************************************)
Init ==
    /\ now = 0
    /\ connections = {}
    /\ notifications = <<>>
    /\ messages = <<>>
    /\ groups = <<>>
    /\ group_members = {}
    /\ group_messages = <<>>
    /\ uiProfile = [u \in Users |-> NoModal]
    /\ uiAddContact = [u \in Users |-> NULL]
    /\ message_mentions = <<>>
    /\ pending_joins = {}
    /\ profiles = [u \in Users |-> ProfileRow("offline", 0)]
    /\ ret = "none"

(***************************************************************************)
(* Connection requests from the two forms                                  *)
(***************************************************************************)
ConnUsers == {"u1", "u2"}

\* what is typed into the add-contact form
ConnEmails == {<<"a">>, <<"A">>, <<"b">>, <<"d">>}

NextConn ==
    \/ \E u \in ConnUsers, t \in ConnUsers : fetchConnection(u, t)
    \/ \E u \in ConnUsers : handleSendConnectionRequest(u)
    \/ \E u \in ConnUsers, email \in ConnEmails : handleSubmit_check(u, email)
    \/ \E u \in ConnUsers : handleSubmit_insert(u)

SpecConn == Init /\ [][NextConn]_vars

\* C2: there are never two connection rows linking the same two users,
\* in either direction
C2_OneRowPerUnorderedPair ==
    \A c, d \in connections :
        ({c.requester_id, c.receiver_id} = {d.requester_id, d.receiver_id})
            => c = d

(***************************************************************************)
(* Deleting direct messages                                                *)
(***************************************************************************)
DMUsers == {"u1", "u2"}

\* who writes to whom: both directions of one conversation, and a user
\* writing to themself
DMPairs == {<<"u1", "u2">>, <<"u2", "u1">>, <<"u1", "u1">>}

NextDelete ==
    \/ \E p \in DMPairs : handleSendMessage(p[1], p[2])
    \/ \E message_id \in MsgIds, user_id \in Users, delete_for_everyone \in BOOLEAN :
          delete_message_for_user(message_id, user_id, delete_for_everyone)
    \/ \E user_id \in DMUsers, other_user_id \in DMUsers :
          clear_conversation_for_user(user_id, other_user_id)
    \/ \E uid \in DMUsers, message_id \in DOMAIN messages :
          \E newrow \in MessagePatches(messages[message_id]) :
             update_messages(uid, message_id, newrow)
    \/ Tick

SpecDelete == Init /\ [][NextDelete]_vars

\* what the spec calls visible: the row passes the SELECT policy for P
Visible(P, m) == messages_select_policy(P, m)

\* C3 (as stated): a message is visible to its sender iff it is not deleted
\* for everyone and not deleted for the sender, visible to its receiver iff
\* it is not deleted for everyone and not deleted for the receiver, and
\* visible to nobody else
C3_VisibleIffOwnFlagClear ==
    \A i \in DOMAIN messages, P \in Users :
        LET m == messages[i]
        IN  /\ P = m.sender_id =>
                  (Visible(P, m) <=>
                      (~ m.deleted_for_everyone /\ ~ m.deleted_for_sender))
            /\ P = m.receiver_id =>
                  (Visible(P, m) <=>
                      (~ m.deleted_for_everyone /\ ~ m.deleted_for_receiver))
            /\ P \notin {m.sender_id, m.receiver_id} => ~ Visible(P, m)

\* C3 (amended): the same for a message between two different users; a
\* message a user sent to themself is visible to them iff it is not deleted
\* for everyone and not deleted for the sender, whatever its
\* deleted-for-receiver flag; no message is visible to a third party
C3_VisibleIffOwnFlagClearBetweenTwo ==
    \A i \in DOMAIN messages, P \in Users :
        LET m == messages[i]
        IN  /\ P = m.sender_id =>
                  (Visible(P, m) <=>
                      (~ m.deleted_for_everyone /\ ~ m.deleted_for_sender))
            /\ (P = m.receiver_id /\ P # m.sender_id) =>
                  (Visible(P, m) <=>
                      (~ m.deleted_for_everyone /\ ~ m.deleted_for_receiver))
            /\ P \notin {m.sender_id, m.receiver_id} => ~ Visible(P, m)

\* a message between two users that its sender deleted for themself: hidden
\* from the sender, still shown to the receiver
C3_Witness ==
    \E i \in DOMAIN messages :
        LET m == messages[i]
        IN  /\ m.sender_id # m.receiver_id
            /\ m.deleted_for_sender /\ ~ m.deleted_for_receiver
            /\ ~ m.deleted_for_everyone
            /\ ~ Visible(m.sender_id, m) /\ Visible(m.receiver_id, m)

\* C4 (as stated): deleted_for_everyone goes from false to true only in a
\* delete-for-everyone call made by the user who sent the message less than
\* two minutes after it was sent; and such a call returns true and leaves
\* the message visible to neither party
C4_SetOnlyBySenderInWindow ==
    [][\A i \in DOMAIN messages :
          LET m == messages[i]
              inWindow == now - m.sent_at < DeleteWindow
          IN  /\ (~ m.deleted_for_everyone /\ messages'[i].deleted_for_everyone)
                    => /\ inWindow
                       /\ delete_message_for_user(i, m.sent_by, TRUE)
              /\ (inWindow /\ delete_message_for_user(i, m.sent_by, TRUE))
                    => /\ ret' = "true"
                       /\ messages'[i].deleted_for_everyone
                       /\ ~ Visible(m.sender_id, messages'[i])
                       /\ ~ Visible(m.receiver_id, messages'[i])
      ]_vars

OtherPartyUntouched(user_id) ==
    /\ DOMAIN messages' = DOMAIN messages
    /\ \A i \in DOMAIN messages :
          LET m == messages[i]
              n == messages'[i]
          IN  /\ n.deleted_for_everyone = m.deleted_for_everyone
              /\ user_id # m.sender_id =>
                    n.deleted_for_sender = m.deleted_for_sender
              /\ user_id # m.receiver_id =>
                    n.deleted_for_receiver = m.deleted_for_receiver
              /\ \A P \in Users \ {user_id} : Visible(P, n) <=> Visible(P, m)

\* C6: deleting a message for oneself and clearing a conversation for
\* oneself never change the other party's flag, deleted_for_everyone, or
\* what the other party can see
C6_DeleteForMeLeavesOtherParty ==
    [][/\ \A message_id \in MsgIds, user_id \in Users :
             delete_message_for_user(message_id, user_id, FALSE)
                => OtherPartyUntouched(user_id)
       /\ \A user_id \in DMUsers, other_user_id \in DMUsers :
             clear_conversation_for_user(user_id, other_user_id)
                => OtherPartyUntouched(user_id)
      ]_vars

\* after a clear by one party: two messages of one conversation, one in each
\* direction, both hidden from one user and both still shown to the other
C6_Witness ==
    /\ Len(messages) = 2
    /\ messages[1].sender_id = messages[2].receiver_id
    /\ messages[1].receiver_id = messages[2].sender_id
    /\ messages[1].sender_id # messages[1].receiver_id
    /\ ~ Visible(messages[1].sender_id, messages[1])
    /\ ~ Visible(messages[1].sender_id, messages[2])
    /\ Visible(messages[1].receiver_id, messages[1])
    /\ Visible(messages[1].receiver_id, messages[2])

(***************************************************************************)
(* Delivery and read receipts                                              *)
(***************************************************************************)
\* the open chat: who reads (and marks) the messages of whom
ChatPairs == {<<"u1", "u2">>, <<"u2", "u1">>}

\* direct and group messages together stay within MaxMsgs
RoomForMessage == Len(messages) + Len(group_messages) < MaxMsgs

NextStatus ==
    \/ \E p \in ChatPairs : RoomForMessage /\ handleSendMessage(p[1], p[2])
    \/ \E p \in ChatPairs : mark_messages_delivered(p[1], p[2])
    \/ \E p \in ChatPairs : mark_messages_read(p[1], p[2])
    \/ create_group(<<"a">>, "u1")
    \/ \E u \in DMUsers : RoomForMessage /\ GroupChatWindow_handleSendMessage(u, 1)
    \/ \E u \in DMUsers : mark_group_messages_delivered(1, u)
    \/ \E u \in DMUsers : mark_group_messages_read(1, u)
    \/ Tick

SpecStatus == Init /\ [][NextStatus]_vars

\* every delivery timestamp that is set stays as it is in this step
DeliveredAtKept ==
    /\ DOMAIN messages' = DOMAIN messages
    /\ DOMAIN group_messages' = DOMAIN group_messages
    /\ \A i \in DOMAIN messages :
          messages[i].delivered_at # NoTime =>
             messages'[i].delivered_at = messages[i].delivered_at
    /\ \A i \in DOMAIN group_messages :
          group_messages[i].delivered_at # NoTime =>
             group_messages'[i].delivered_at = group_messages[i].delivered_at

\* C7: a call that marks direct or group messages delivered or read never
\* changes or clears a delivered_at that is already set
C7_DeliveredAtWrittenOnce ==
    [][/\ \A p \in ChatPairs :
             (mark_messages_delivered(p[1], p[2]) \/ mark_messages_read(p[1], p[2]))
                => DeliveredAtKept
       /\ \A g \in GroupIds, u \in DMUsers :
             (mark_group_messages_delivered(g, u) \/ mark_group_messages_read(g, u))
                => DeliveredAtKept
      ]_vars

\* a direct and a group message, both delivered at an earlier minute, after
\* a later call that marked messages read
C7_Witness ==
    /\ ret = "void"
    /\ \E i \in DOMAIN messages :
          /\ messages[i].delivered_at # NoTime
          /\ messages[i].delivered_at < now
          /\ messages[i].read_at = now
    /\ \E i \in DOMAIN group_messages :
          /\ group_messages[i].delivered_at # NoTime
          /\ group_messages[i].delivered_at < now
          /\ group_messages[i].read_at = now

\* C8 (as stated): a direct message that is read is delivered, and was
\* delivered no later than it was read
C8_ReadImpliesDelivered ==
    \A i \in DOMAIN messages :
        messages[i].read_at # NoTime =>
            /\ messages[i].delivered_at # NoTime
            /\ messages[i].delivered_at <= messages[i].read_at

(***************************************************************************)
(* Group names: creating and renaming groups                               *)
(***************************************************************************)
GroupNames == {<<"a">>, <<"A">>, <<"b">>}

NextNames ==
    \/ \E group_name \in GroupNames, creator_id \in {"u1", "u2", NoProfile} :
          create_group(group_name, creator_id)
    \/ \E g \in GroupIds, p_name \in GroupNames \cup {NoName}, u \in {"u1", "u2"} :
          update_group_info_by_member(g, p_name, u)

SpecNames == Init /\ [][NextNames]_vars

GroupNamesUnique ==
    \A g, h \in DOMAIN groups :
        (g # h /\ groups[g].exists /\ groups[h].exists)
            => Lower(groups[g].name) # Lower(groups[h].name)

NameTaken(name) ==
    \E h \in DOMAIN groups :
        groups[h].exists /\ Lower(groups[h].name) = Lower(name)

\* C9: no two groups ever have names that are equal ignoring case, and a
\* create_group whose name equals an existing group's name ignoring case
\* fails and adds neither a group nor a member
C9_GroupNamesUniqueIgnoringCase ==
    /\ []GroupNamesUnique
    /\ [][\A group_name \in GroupNames, creator_id \in {"u1", "u2", NoProfile} :
            (NameTaken(group_name) /\ create_group(group_name, creator_id))
               => /\ ret' = "error"
                  /\ groups' = groups
                  /\ group_members' = group_members
        ]_vars

\* groups "A" and "b" exist and the last call, a rename, was refused
C9_Witness ==
    /\ Len(groups) = 2
    /\ groups[1].name = <<"A">>
    /\ groups[2].name = <<"b">>
    /\ ret = "false"

GroupHasCreatorAsAdmin ==
    \A g \in DOMAIN groups :
        groups[g].exists =>
            MemberRow(g, groups[g].created_by, "admin") \in group_members

\* C10: create_group adds the group row and the creator's admin member row
\* together or adds neither; where groups only come from create_group and
\* nobody leaves, every group has its creator as an admin member
C10_CreateGroupAtomic ==
    /\ []GroupHasCreatorAsAdmin
    /\ [][\A group_name \in GroupNames, creator_id \in {"u1", "u2", NoProfile} :
            create_group(group_name, creator_id)
               => \/ /\ ret' = "error"
                     /\ groups' = groups
                     /\ group_members' = group_members
                  \/ /\ ret' = "ok"
                     /\ groups' = Append(groups, GroupRow(group_name, creator_id))
                     /\ MemberRow(Len(groups'), creator_id, "admin") \notin group_members
                     /\ group_members' = group_members
                           \cup {MemberRow(Len(groups'), creator_id, "admin")}
        ]_vars

\* one group with its creator as admin, and a later create_group that failed
\* and left no second group and no second member row
C10_Witness ==
    /\ Len(groups) = 1
    /\ group_members = {MemberRow(1, groups[1].created_by, "admin")}
    /\ ret = "error"

(***************************************************************************)
(* Group membership: joining and leaving                                   *)
(***************************************************************************)
Emails == {<<"B">>, <<"c">>, <<"d">>}

\* u1 and u2 are connected (u1 asked, u2 accepted); u3 is connected to nobody
InitMembers ==
    /\ now = 0
    /\ connections = {ConnRow("u1", "u2", "accepted")}
    /\ notifications = <<>>
    /\ messages = <<>>
    /\ groups = <<>>
    /\ group_members = {}
    /\ group_messages = <<>>
    /\ uiProfile = [u \in Users |-> NoModal]
    /\ uiAddContact = [u \in Users |-> NULL]
    /\ message_mentions = <<>>
    /\ pending_joins = {}
    /\ profiles = [u \in Users |-> ProfileRow("offline", 0)]
    /\ ret = "none"

NextMembers ==
    \/ create_group(<<"a">>, "u1")
    \/ \E g \in GroupIds, e \in Emails, by \in {"u1", "u3"}, send \in BOOLEAN :
          add_user_to_group_with_check(g, e, by, send)
    \/ \E g \in GroupIds, u \in Users : accept_group_invitation(g, u)
    \/ \E g \in GroupIds, u \in Users, new \in Users \cup {NULL} :
          leave_group_with_management(g, u, new)
    \/ \E g \in GroupIds, u \in Users : leave_group(g, u)
    \/ \E g \in GroupIds, u \in Users : handleLeaveGroup(u, g)
    \/ \E g \in GroupIds, u \in Users : handleDeleteGroup(u, g)
    \/ \E g \in GroupIds, u \in Users, new \in Users :
          new # u /\ handleTransferAdmin(u, g, new)

SpecMembers == InitMembers /\ [][NextMembers]_vars

\* C1 (as stated): every group that has a member has a member with role
\* admin, and its created_by is one of its members
C1_AdminAndOwnerAmongMembers ==
    \A g \in DOMAIN groups :
        (groups[g].exists /\ MembersOf(g) # {})
            => /\ \E m \in MembersOf(g) : m.role = "admin"
               /\ is_member(g, groups[g].created_by)

\* the profile an email resolves to
TargetOf(e) == CHOOSE u \in profiles_by_email(e) : TRUE

\* user t has a member row in group g after the step
is_member_after(g, t) ==
    \E m \in group_members' : m.group_id = g /\ m.user_id = t

C12_AddFailuresChangeNothing ==
    [][\A g \in GroupIds, e \in Emails, by \in {"u1", "u3"}, send \in BOOLEAN :
          add_user_to_group_with_check(g, e, by, send)
          => LET result == add_user_to_group_result(ret')
                 fails == \/ ~ is_member(g, by)
                          \/ profiles_by_email(e) = {}
                          \/ is_member(g, TargetOf(e))
             IN  /\ fails => /\ ~ result.success
                             /\ group_members' = group_members
                             /\ notifications' = notifications
                 /\ (result.user_exists = "false")
                       <=> (is_member(g, by) /\ profiles_by_email(e) = {})
      ]_vars

\* a member asked to add an email that matches no profile: refused, and the
\* group still has its creator as only member and nobody was notified
C12_Witness ==
    /\ ret = "user_not_found"
    /\ group_members = {MemberRow(1, "u1", "admin")}
    /\ notifications = <<>>

\* C13 (as stated): a group exists only while it has at least one member
C13_NoGroupWithoutMembers ==
    \A g \in DOMAIN groups : groups[g].exists => MembersOf(g) # {}

AdminsOf(g) == {m.user_id : m \in {n \in MembersOf(g) : n.role = "admin"}}

\* the owner of g is its only admin and g has other members
OwnerIsSoleAdmin(g, u) ==
    /\ group_exists(g)
    /\ groups[g].created_by = u
    /\ AdminsOf(g) = {u}
    /\ Cardinality(MembersOf(g)) > 1

\* C14: when the owner, being the only admin of a group that has other
\* members, leaves through leave_group_with_management without naming a
\* successor, then after the call the owner's member row is gone, exactly
\* one of the remaining members has become admin and the others are as they
\* were, created_by is that new admin, and a system message has been
\* appended to the group's messages
C14_OwnerLeavesWithoutSuccessor ==
    [][\A g \in GroupIds, u \in Users :
          (OwnerIsSoleAdmin(g, u) /\ leave_group_with_management(g, u, NULL))
          => /\ ret' = "left_group"
             /\ ~ is_member_after(g, u)
             /\ \E p \in Users \ {u} :
                   /\ MemberRow(g, p, "member") \in group_members
                   /\ group_members' =
                         (group_members \ {MemberRow(g, u, "admin"),
                                           MemberRow(g, p, "member")})
                         \cup {MemberRow(g, p, "admin")}
                   /\ groups' = [groups EXCEPT ![g].created_by = p]
             /\ group_messages' = Append(group_messages, GroupMsgRow(g, SYSTEM, now))
      ]_vars

\* u1 created the group and has left it; of u2 and u3, who were plain
\* members, one is now admin and owner, and the last message is the system's
C14_Witness ==
    /\ ret = "left_group"
    /\ {m.user_id : m \in MembersOf(1)} = {"u2", "u3"}
    /\ Cardinality(AdminsOf(1)) = 1
    /\ groups[1].created_by \in AdminsOf(1)
    /\ group_messages # <<>>
    /\ group_messages[Len(group_messages)] = GroupMsgRow(1, SYSTEM, now)

\* C15 (as stated): on each of the three ways to leave a group, a step that
\* appends the system's departure message is a step that removes the leaving
\* user's member row; no departure message is appended when no member row
\* is removed
C15_DepartureMessageOnlyWithRemoval ==
    [][\A g \in GroupIds, u \in Users :
          ( /\ \/ \E new \in Users \cup {NULL} : leave_group_with_management(g, u, new)
               \/ leave_group(g, u)
               \/ handleLeaveGroup(u, g)
            /\ group_messages' = Append(group_messages, GroupMsgRow(g, SYSTEM, now)) )
          => (is_member(g, u) /\ ~ is_member_after(g, u))
      ]_vars

(***************************************************************************)
(* Mentions                                                                *)
(***************************************************************************)
\* arrays of user ids of at most MaxMentions elements
MentionArrays ==
    UNION {[1..n -> Users \cup {NoProfile}] : n \in 0..MaxMentions}

\* texts, as the @names they contain
MentionNames == {<<"a">>, <<"B">>, <<"c">>}
MentionTexts == UNION {[1..n -> MentionNames] : n \in 1..MaxMentions}

NextMentions ==
    \/ create_group(<<"a">>, "u1")
    \/ \E u \in {"u2", "u3"} : accept_group_invitation(1, u)
    \/ \E g \in GroupIds, s \in Users, M \in MentionArrays :
          send_group_message_with_mentions(g, s, M)
    \/ \E u \in Users, g \in GroupIds, text \in MentionTexts :
          GroupChatWindow_handleSendMessage_mentions(u, g, text)

SpecMentions == Init /\ [][NextMentions]_vars

\* the rows a step appends to message_mentions and to notifications
NewMentions ==
    SubSeq(message_mentions', Len(message_mentions) + 1, Len(message_mentions'))
NewNotifications ==
    SubSeq(notifications', Len(notifications) + 1, Len(notifications'))

\* a step creates, for each id listed in M, one mention row and one mention
\* notification addressed to it, and none for any other user
OneMentionEach(M) ==
    \A id \in Users \cup {NoProfile} :
        LET listed == \E i \in DOMAIN M : M[i] = id
            rows == {i \in DOMAIN NewMentions :
                        NewMentions[i].mentioned_user_id = id}
            notes == {i \in DOMAIN NewNotifications :
                        /\ NewNotifications[i].type = "mention"
                        /\ NewNotifications[i].user_id = id}
        IN  /\ Cardinality(rows) = IF listed THEN 1 ELSE 0
            /\ Cardinality(notes) = IF listed THEN 1 ELSE 0

\* C16 (as stated): a send_group_message_with_mentions call that goes through
\* creates exactly one mention row and exactly one mention notification for
\* each distinct id among the mentioned ids, addressed to that id, and none
\* for any user who is not among them
C16_OneMentionPerDistinctId ==
    [][\A g \in GroupIds, s \in Users, M \in MentionArrays :
          (send_group_message_with_mentions(g, s, M) /\ ret' = "ok")
             => OneMentionEach(M)
      ]_vars

(***************************************************************************)
(* Responding to connection requests                                       *)
(***************************************************************************)
Status == {"pending", "accepted", "rejected"}

NextRespond ==
    \/ \E u \in ConnUsers, t \in ConnUsers : fetchConnection(u, t)
    \/ \E u \in ConnUsers : handleSendConnectionRequest(u)
    \/ \E u \in ConnUsers, email \in ConnEmails : handleSubmit_check(u, email)
    \/ \E u \in ConnUsers : handleSubmit_insert(u)
    \/ \E u \in ConnUsers, i \in 1..MaxNotifs :
          NotificationPanel_handleAcceptConnection(u, i)
    \/ \E u \in ConnUsers, i \in 1..MaxNotifs :
          NotificationPanel_handleRejectConnection(u, i)
    \/ \E u \in ConnUsers : UserProfileModal_handleAcceptConnection(u)
    \/ \E uid \in Users, c \in connections, st \in Status :
          update_connections(uid, c, st)

SpecRespond == Init /\ [][NextRespond]_vars

\* connection c is answered in this step: it is pending and the row of the
\* same id is accepted or rejected afterwards
Answered(c) ==
    /\ c.status = "pending"
    /\ \E d \in connections' :
          ConnId(d) = ConnId(c) /\ d.status \in {"accepted", "rejected"}

\* this step is an operation of user uid on connection c
ActsOn(uid, c) ==
    \/ \E i \in 1..MaxNotifs, st \in Status :
          /\ NotificationPanel_respond(uid, i, st)
          /\ notifications[i].from = c.requester_id
          /\ c.receiver_id = uid
    \/ /\ UserProfileModal_handleAcceptConnection(uid)
       /\ ConnId(uiProfile[uid].connection) = ConnId(c)
    \/ \E st \in Status : update_connections(uid, c, st)

\* C17 (as stated): a pending connection becomes accepted or rejected only
\* in a step taken by its receiver, never in one taken by its requester or
\* by a third user
C17_OnlyReceiverResponds ==
    [][\A c \in connections :
          Answered(c) =>
             /\ ActsOn(c.receiver_id, c)
             /\ \A uid \in Users \ {c.receiver_id} : ~ ActsOn(uid, c)
      ]_vars

\* C18 (as stated): a connection that is accepted or rejected keeps its
\* status in every step
C18_AcceptedRejectedTerminal ==
    [][\A c \in connections :
          c.status \in {"accepted", "rejected"} => c \in connections'
      ]_vars

\* an active connection links a and b, in either direction
ActiveBetween(a, b) ==
    \E c \in ConnectionsBetween(a, b) : c.status \in {"pending", "accepted"}

NoSelfConnection == \A c \in connections : c.requester_id # c.receiver_id

\* C19 (as stated): a connection request from a user to themself, or to a
\* user with whom a pending or accepted connection exists in either
\* direction, fails and adds neither a connection nor a notification; and no
\* connection ever has the same user as requester and receiver
C19_NoSelfOrDuplicateRequest ==
    /\ []NoSelfConnection
    /\ [][\A u \in ConnUsers :
            /\ (handleSendConnectionRequest(u)
                  /\ (uiProfile[u].userId = u \/ ActiveBetween(u, uiProfile[u].userId)))
               => (connections' = connections /\ notifications' = notifications)
            /\ (handleSubmit_insert(u)
                  /\ (uiAddContact[u] = u \/ ActiveBetween(u, uiAddContact[u])))
               => (connections' = connections /\ notifications' = notifications)
        ]_vars

\* the notification of the request that made connection c
Originating(n, c) ==
    /\ n.type = "connection_request"
    /\ n.user_id = c.receiver_id
    /\ n.from = c.requester_id

OneNotificationPerRequest ==
    \A c \in connections :
        Cardinality({i \in DOMAIN notifications : Originating(notifications[i], c)}) = 1

InitGroup ==
    /\ now = 0
    /\ connections = {ConnRow("u1", "u2", "accepted")}
    /\ notifications = <<>>
    /\ messages = <<>>
    /\ groups = <<GroupRow(<<"a">>, "u1")>>
    /\ group_members = {MemberRow(1, "u1", "admin"), MemberRow(1, "u2", "member")}
    /\ group_messages = <<>>
    /\ uiProfile = [u \in Users |-> NoModal]
    /\ uiAddContact = [u \in Users |-> NULL]
    /\ message_mentions = <<>>
    /\ pending_joins = {}
    /\ profiles = [u \in Users |-> ProfileRow("offline", 0)]
    /\ ret = "none"

NextGroupDelete ==
    \/ \E u \in Users : GroupChatWindow_handleSendMessage(u, 1)
    \/ \E i \in GroupMsgIds, u \in Users :
          delete_group_message_for_everyone(i, u)
    \/ \E i \in GroupMsgIds, u \in Users : delete_group_message_for_user(i, u)
    \/ Tick
    \/ Elapse(GroupDeleteWindow)

SpecGroupDelete == InitGroup /\ [][NextGroupDelete]_vars

\* what user u sees of the group messages: the rows the SELECT policy shows
GroupView(u, msgs) ==
    SelectSeq(msgs, LAMBDA m : group_messages_select_policy(u, m))

NextCleanup ==
    \/ \E p \in DMPairs : handleSendMessage(p[1], p[2])
    \/ \E i \in MsgIds, u \in DMUsers, all \in BOOLEAN :
          delete_message_for_user(i, u, all)
    \/ \E p \in DMPairs : clear_conversation_for_user(p[1], p[2])
    \/ cleanup_deleted_messages
    \/ Tick
    \/ Elapse(CleanupAge)

SpecCleanup == Init /\ [][NextCleanup]_vars

\* message m is due for removal: more than an hour old and deleted for
\* everyone, or for its sender and for its receiver
Expired(m) ==
    /\ now - m.timestamp > CleanupAge
    /\ \/ m.deleted_for_everyone
       \/ (m.deleted_for_sender /\ m.deleted_for_receiver)

NextRoles ==
    \/ create_group(<<"a">>, "u1")
    \/ \E g \in GroupIds, e \in Emails, by \in {"u1", "u3"} :
          add_user_to_group_with_check(g, e, by, TRUE)
    \/ \E g \in GroupIds, u \in Users : accept_group_invitation(g, u)
    \/ \E g \in GroupIds, u \in Users, new \in Users \cup {NULL} :
          leave_group_with_management(g, u, new)
    \/ \E g \in GroupIds, u \in Users : leave_group(g, u)
    \/ \E g \in GroupIds, u \in Users : handleLeaveGroup(u, g)
    \/ \E g \in GroupIds, u \in Users, new \in Users :
          new # u /\ handleTransferAdmin(u, g, new)
    \/ \E uid \in Users, g \in GroupIds, u \in Users, r \in Roles :
          insert_group_members(uid, MemberRow(g, u, r))

SpecRoles == InitMembers /\ [][NextRoles]_vars

\* C23: in every step, a member row that is there before and after it has the
\* same role, or had role member and has role admin
C23_RoleChangesOnlyToAdmin ==
    [][\A m \in group_members, n \in group_members' :
          (m.group_id = n.group_id /\ m.user_id = n.user_id /\ m.role # n.role)
             => (m.role = "member" /\ n.role = "admin")
      ]_vars

\* the creator u1 has left through leave_group_with_management: ownership
\* went to another user, who is a member with role admin
C23_Witness ==
    /\ ret = "left_group"
    /\ \E g \in DOMAIN groups :
          /\ groups[g].exists
          /\ groups[g].created_by # "u1"
          /\ MemberRow(g, groups[g].created_by, "admin") \in group_members
          /\ ~ is_member(g, "u1")

\* C24 (as stated): when the owner of a group transfers it to another member,
\* that step sets created_by to the target, leaves the target with role
\* admin and the previous owner with role member, and appends one system
\* message, all in the one step
C24_TransferTakesEffectTogether ==
    [][\A g \in GroupIds, u \in Users, new \in Users :
          ( /\ handleTransferAdmin(u, g, new)
            /\ new # u
            /\ is_member(g, u)
            /\ is_member(g, new) )
          => /\ groups'[g].created_by = new
             /\ MemberRow(g, new, "admin") \in group_members'
             /\ MemberRow(g, u, "member") \in group_members'
             /\ group_messages' =
                   Append(group_messages, GroupMsgRow(g, SYSTEM, now))
      ]_vars

\* user t holds role admin in group g
IsAdmin(members, g, t) == MemberRow(g, t, "admin") \in members

\* C25 (as stated): a user comes to hold role admin in a group only in a
\* step taken by the group's owner: the creation of the group by that user,
\* the owner's transfer, or the owner's leaving through
\* leave_group_with_management
C25_AdminOnlyThroughOwner ==
    [][\A g \in GroupIds, t \in Users :
          (~ IsAdmin(group_members, g, t) /\ IsAdmin(group_members', g, t))
          => \/ /\ g = Len(groups) + 1
                /\ create_group(<<"a">>, t)
             \/ /\ group_exists(g)
                /\ \/ handleTransferAdmin(groups[g].created_by, g, t)
                   \/ \E new \in Users \cup {NULL} :
                         leave_group_with_management(g, groups[g].created_by, new)
      ]_vars

(***************************************************************************)
(* Concurrent joins                                                        *)
(***************************************************************************)
JoinCalls ==
    {JoinCall(proc, g, u, by, send) :
        proc \in {"add_user_to_group_with_check", "accept_group_invitation"},
        g \in GroupIds, u \in Users, by \in Users, send \in BOOLEAN}

NextJoin ==
    \/ create_group(<<"a">>, "u1")
    \/ \E g \in GroupIds, e \in Emails, by \in Users, send \in BOOLEAN :
          add_user_to_group_with_check_checks(g, e, by, send)
    \/ \E c \in JoinCalls : add_user_to_group_with_check_insert(c)
    \/ \E g \in GroupIds, u \in Users : accept_group_invitation_checks(g, u)
    \/ \E c \in JoinCalls : accept_group_invitation_insert(c)
    \/ \E uid \in Users, g \in GroupIds, u \in Users, r \in Roles :
          insert_group_members(uid, MemberRow(g, u, r))
    \/ \E g \in GroupIds, u \in Users : handleLeaveGroup(u, g)

SpecJoin == InitMembers /\ [][NextJoin]_vars

\* C26: whatever the order in which the statements of concurrent direct
\* adds, acceptances and inserts of one's own row run, group_members never
\* holds two rows for one group and user
C26_AtMostOneMembershipRow ==
    \A g \in GroupIds, u \in Users :
        Cardinality({m \in group_members :
                        m.group_id = g /\ m.user_id = u}) <= 1

\* a join whose check had found no row met the unique constraint at its
\* INSERT, the user having become a member in between, and another such
\* call is still to run its INSERT
C26_Witness ==
    /\ ret = "unique_violation"
    /\ \E c \in pending_joins : is_member(c.group_id, c.user_id)

\* user u holds an invitation to group g that has not been answered
UnansweredInvitation(g, u) ==
    \E i \in DOMAIN notifications :
       LET n == notifications[i]
       IN  /\ n.user_id = u
           /\ n.type = "group_invite"
           /\ n.group_id = g
           /\ n.flag = "requires_acceptance"
           /\ ~ n.is_read

\* C27 (as stated): a call of accept_group_invitation makes the user a
\* member of the group only when the user holds an unanswered invitation to
\* that group
C27_AcceptNeedsInvitation ==
    [][\A g \in GroupIds, u \in Users :
          ( /\ accept_group_invitation(g, u)
            /\ ~ is_member(g, u)
            /\ is_member_after(g, u) )
          => UnansweredInvitation(g, u)
      ]_vars

(***************************************************************************)
(* Who writes group messages                                               *)
(***************************************************************************)
NextGroupSend ==
    \/ \E u \in Users : GroupChatWindow_handleSendMessage(u, 1)
    \/ \E s \in Users, M \in MentionArrays :
          send_group_message_with_mentions(1, s, M)
    \/ \E uid \in Users, s \in Profiles :
          insert_group_messages(uid, GroupMsgRow(1, s, now))
    \/ \E u \in Users, name \in GroupNames : update_group_info_by_member(1, name, u)
    \/ \E u \in Users, new \in Users \cup {NULL} :
          leave_group_with_management(1, u, new)
    \/ \E u \in Users : leave_group(1, u)
    \/ Tick

SpecGroupSend == InitGroup /\ [][NextGroupSend]_vars

\* the step is one of the operations that announce an event of group g in a
\* system message: a member leaving, a rename
SystemOperation(g) ==
    \/ \E u \in Users, new \in Users \cup {NULL} :
          leave_group_with_management(g, u, new)
    \/ \E u \in Users : leave_group(g, u)
    \/ \E u \in Users, name \in GroupNames : update_group_info_by_member(g, name, u)

\* C28 (as stated): a group message a step appends either carries the id of
\* a user who is a member of the message's group when the step is taken, or
\* carries the system id and is appended by a system operation
C28_GroupMessagesAuthentic ==
    [][\A k \in DOMAIN group_messages' :
          k > Len(group_messages) =>
             LET m == group_messages'[k]
             IN  IF m.sender_id = SYSTEM
                 THEN SystemOperation(m.group_id)
                 ELSE is_member(m.group_id, m.sender_id)
      ]_vars

\* C29 (as stated): a submission of the composer that succeeds adds exactly
\* one row to group_messages, with or without @names in the text, and one
\* that fails leaves no message, mention or notification behind
C29_OneRowPerSubmission ==
    [][\A u \in Users, g \in GroupIds, text \in MentionTexts :
          GroupChatWindow_handleSendMessage_mentions(u, g, text) =>
             IF ret' = "ok"
             THEN /\ Len(group_messages') = Len(group_messages) + 1
                  /\ group_messages'[Len(group_messages')].sender_id = u
             ELSE /\ group_messages' = group_messages
                  /\ message_mentions' = message_mentions
                  /\ notifications' = notifications
      ]_vars

(***************************************************************************)
(* The sweep of inactive accounts                                          *)
(***************************************************************************)
NextAccounts ==
    \/ \E u \in Users, s \in Statuses : updateUserStatus(u, s)
    \/ \E u \in Users : profiles[u].exists
                        /\ GroupChatWindow_handleSendMessage(u, 1)
    \/ Tick
    \/ Elapse(InactiveAge)
    \/ cleanup_inactive_accounts

SpecAccounts == InitGroup /\ [][NextAccounts]_vars

\* the users whose account a step deletes
DeletedAccounts ==
    {u \in Users : profiles[u].exists /\ ~ profiles'[u].exists}

\* C30: a run of cleanup_inactive_accounts deletes only accounts that are
\* offline and have been inactive for more than five days, and what goes
\* with them is theirs alone: a group that keeps a member whose account
\* stays is not deleted, and neither is such a member's membership row nor
\* a message sent by an account that stays.
C30_CleanupRemovesOnlyOwnRows ==
    [][cleanup_inactive_accounts =>
          /\ \A u \in DeletedAccounts :
                /\ profiles[u].status = "offline"
                /\ now - profiles[u].last_active > InactiveAge
          /\ \A g \in DOMAIN groups :
                (/\ group_exists(g)
                 /\ \E m \in MembersOf(g) : m.user_id \notin DeletedAccounts)
                => groups'[g].exists
          /\ \A m \in group_members :
                m.user_id \notin DeletedAccounts => m \in group_members'
          /\ \A k \in DOMAIN group_messages :
                group_messages[k].sender_id \notin DeletedAccounts
                => \E j \in DOMAIN group_messages' :
                      group_messages'[j] = group_messages[k]]_vars

====
